---- MODULE Spec2Model ----
(***************************************************************************)
(* Crypto monitor: the asset store (CryptoDataService), the statistics     *)
(* worker (crypto-stats.worker), the bridge to it (WebWorkerService) and   *)
(* the consumer that wires them (CryptoMonitorComponent).                  *)
(*                                                                         *)
(* Numbers.  Prices are fixed-point integers in units of 1/10000 dollar,   *)
(* the grid simulatePriceChange rounds to.  changePercent is an integer    *)
(* in units of 1/100 percent, the grid calculateChangePercent rounds to.   *)
(* A volatility factor is an integer in units of 1/1000 (0.006 is 6).      *)
(* Math.random() is an integer r in 0..3 standing for r/4.  Floating-point *)
(* rounding error of the JavaScript doubles is not modelled: arithmetic is *)
(* exact up to the explicit Math.round calls; a quotient is a fraction in  *)
(* lowest terms and a square root is kept by its radicand.  Date.now()     *)
(* stamps (lastUpdate, timestamp) carry no behaviour and are left out.     *)
(*                                                                         *)
(* An optional value (a field that may be undefined) is Undefined == <<>>  *)
(* or Some(v) == <<v>>.                                                    *)
(***************************************************************************)
EXTENDS Integers, Sequences, FiniteSets, TLC

VARIABLES
    rawAssets,            \* CryptoDataService.rawAssets: the signal's current array
    updateSubscription,   \* CryptoDataService.updateSubscription: "undefined" or "open"
    activeIntervals,      \* number of live interval() subscriptions (timers that fire)
    isConnected,          \* CryptoDataService.isConnected signal
    ticks,                \* number of updatePrices runs so far
    effectDirty,          \* the consumer's effect() is scheduled to re-run
    worker,               \* WebWorkerService.worker: "undefined", "running", "terminated"
    toWorker,             \* messages posted to the worker, not yet handled
    fromWorker,           \* messages posted by the worker, not yet delivered
    statsStopped,         \* statsSubject.complete() has been called
    statsEvents,          \* every StatsResult emitted on stats$, in order
    handled,              \* the requests the engine has answered, each with its response
    nextRid,              \* number of requests posted so far (ids are 1..nextRid)
    lastOp                \* name of the operation that produced this state

storeVars == <<rawAssets, updateSubscription, activeIntervals, isConnected, ticks>>
bridgeVars == <<worker, toWorker, fromWorker, statsStopped, statsEvents, handled, nextRid>>
vars == <<rawAssets, updateSubscription, activeIntervals, isConnected, ticks,
          effectDirty, worker, toWorker, fromWorker, statsStopped, statsEvents,
          handled, nextRid, lastOp>>

----------------------------------------------------------------------------
(* Bounds of the model *)

\* Ticks explored with free random draws.
MaxTicks == 2
\* Ticks explored in the long run that fills the history to its cap and beyond.
MaxLongTicks == 23
\* Stats requests the consumer's effect posts in one run.
MaxRequests == 4
\* Stats requests an arbitrary caller of the bridge posts in one run.
MaxDirect == 2

\* Entries of the configuration lists the store is constructed on.
MaxConfigLen == 3
\* Requests posted to the worker on its own.
MaxEngineRequests == 3
\* Assets in the collections the computed views are read on.
MaxViewAssets == 3

(* Program constants *)

PRICE_HISTORY_SIZE == 20
\* default windowSize of calculateStats and of the effect's call
DEFAULT_WINDOW == 10

Undefined == <<>>
Some(v) == <<v>>
IsDefined(o) == o # Undefined
ValueOf(o) == o[1]

\* Math.round(n / d) for an integer n and d > 0: floor(n/d + 1/2).
RoundDiv(n, d) == (2 * n + d) \div (2 * d)

----------------------------------------------------------------------------
(* Configuration *)

\* CryptoDataService.cryptoConfigs, in source order.  initialPrice and
\* volatility in the model's units.
cryptoConfigs ==
    << [id |-> "BTC", name |-> "Bitcoin",      symbol |-> "BTC", initialPrice |-> 432500000, volatility |-> 2],
       [id |-> "ETH", name |-> "Ethereum",     symbol |-> "ETH", initialPrice |-> 22805000,  volatility |-> 3],
       [id |-> "BNB", name |-> "Binance Coin", symbol |-> "BNB", initialPrice |-> 3157500,   volatility |-> 4],
       [id |-> "SOL", name |-> "Solana",       symbol |-> "SOL", initialPrice |-> 984500,    volatility |-> 5],
       [id |-> "ADA", name |-> "Cardano",      symbol |-> "ADA", initialPrice |-> 5200,      volatility |-> 6],
       [id |-> "XRP", name |-> "Ripple",       symbol |-> "XRP", initialPrice |-> 5800,      volatility |-> 5] >>

\* The entries the model instantiates the store with.  The four high-priced
\* entries are left out of the running store: the squares the statistics
\* need exceed the model checker's 32-bit integers at their prices.  The
\* store treats every entry alike, so ADA and XRP (in configuration order)
\* stand for the list.
trackedConfigs == SubSeq(cryptoConfigs, 5, 6)

NumAssets == Len(trackedConfigs)
AssetIdx == 1..NumAssets

----------------------------------------------------------------------------
(* price-simulator *)

\* Values of Math.random() the timer ticks draw from: 0 (the largest fall,
\* -volatility) and 3/4 (a rise of volatility/2), as quarters.
RandomValues == {0, 3}

\* Mutant of simulatePriceChange: the change is ten times the volatility
\* factor (the factor taken as tenths of a percent scaled once too often).
simulatePriceChangeTenfold(currentPrice, volatilityFactor, r) ==
    currentPrice + RoundDiv(currentPrice * (r - 2) * volatilityFactor * 10, 2000)

\* Mutant of simulatePriceChange: the "1 +" is missing, the new price is the
\* change itself.
simulatePriceChangeOnlyChange(currentPrice, volatilityFactor, r) ==
    RoundDiv(currentPrice * (r - 2) * volatilityFactor, 2000)

\* simulatePriceChange(currentPrice, volatilityFactor) with Math.random() = r/4.
\*   randomChange = (r/4 - 0.5) * 2 * volatilityFactor  =  (r - 2) * vol / 2000
\*   newPrice     = currentPrice * (1 + randomChange)
\*   return Math.round(newPrice * 10000) / 10000
\* currentPrice is already on the 1/10000 grid, so the rounding acts on the
\* increment alone.
simulatePriceChange(currentPrice, volatilityFactor, r) ==
    currentPrice + RoundDiv(currentPrice * (r - 2) * volatilityFactor, 2000)

\* Mutant of calculateChangePercent: Math.floor instead of Math.round.
calculateChangePercentFloor(currentPrice, previousPrice) ==
    IF previousPrice = 0 THEN 0
    ELSE ((currentPrice - previousPrice) * 10000) \div previousPrice

\* calculateChangePercent(currentPrice, previousPrice), result in 1/100 percent:
\*   if (previousPrice === 0) return 0;
\*   change = (currentPrice - previousPrice) / previousPrice * 100
\*   return Math.round(change * 100) / 100
calculateChangePercent(currentPrice, previousPrice) ==
    IF previousPrice = 0 THEN 0
    ELSE RoundDiv((currentPrice - previousPrice) * 10000, previousPrice)

----------------------------------------------------------------------------
(* CryptoDataService *)

\* Mutant of initializeAssets: the history starts empty instead of holding
\* the initial price.
initializeAssetsEmptyHistory ==
    [i \in AssetIdx |->
        [id               |-> trackedConfigs[i].id,
         name             |-> trackedConfigs[i].name,
         symbol           |-> trackedConfigs[i].symbol,
         price            |-> trackedConfigs[i].initialPrice,
         previousPrice    |-> trackedConfigs[i].initialPrice,
         changePercent    |-> 0,
         priceHistory     |-> <<>>,
         alertThreshold   |-> Undefined,
         isAlertTriggered |-> FALSE,
         movingAverage    |-> Undefined,
         volatility       |-> Undefined]]

\* cryptoConfigs.map(config => ({ ... })) on a given configuration list: one
\* record per entry, whatever the list holds.  alertThreshold, movingAverage
\* and volatility are not set by the object literal.
initializeAssetsFrom(configs) ==
    [i \in 1..Len(configs) |->
        [id               |-> configs[i].id,
         name             |-> configs[i].name,
         symbol           |-> configs[i].symbol,
         price            |-> configs[i].initialPrice,
         previousPrice    |-> configs[i].initialPrice,
         changePercent    |-> 0,
         priceHistory     |-> <<configs[i].initialPrice>>,
         alertThreshold   |-> Undefined,
         isAlertTriggered |-> FALSE,
         movingAverage    |-> Undefined,
         volatility       |-> Undefined]]

\* initializeAssets(): the map over the service's configuration list.
initializeAssets == initializeAssetsFrom(trackedConfigs)

\* Mutant of updatedHistoryOf: the shift() is missing, the history only grows.
updatedHistoryNoEvict(priceHistory, newPrice) ==
    Append(priceHistory, newPrice)

\* Mutant of updatedHistoryOf: over the cap, the newest old sample is dropped
\* (a pop() before the push) instead of the oldest.
updatedHistoryDropNewest(priceHistory, newPrice) ==
    IF Len(priceHistory) + 1 > PRICE_HISTORY_SIZE
    THEN Append(SubSeq(priceHistory, 1, Len(priceHistory) - 1), newPrice)
    ELSE Append(priceHistory, newPrice)

\* const updatedHistory = [...asset.priceHistory, newPrice];
\* if (updatedHistory.length > PRICE_HISTORY_SIZE) updatedHistory.shift();
updatedHistoryOf(priceHistory, newPrice) ==
    LET updatedHistory == Append(priceHistory, newPrice)
    IN  IF Len(updatedHistory) > PRICE_HISTORY_SIZE
        THEN Tail(updatedHistory)
        ELSE updatedHistory

\* asset.alertThreshold !== undefined && newPrice >= asset.alertThreshold
alertCheck(threshold, price) ==
    IsDefined(threshold) /\ price >= ValueOf(threshold)

\* Mutant of updatedAsset: the alert latches (once triggered it stays on).
updatedAssetLatching(asset, index, r) ==
    LET config        == trackedConfigs[index]
        previousPrice == asset.price
        newPrice      == simulatePriceChange(asset.price, config.volatility, r)
    IN  [asset EXCEPT
            !.previousPrice    = previousPrice,
            !.price            = newPrice,
            !.changePercent    = calculateChangePercent(newPrice, previousPrice),
            !.priceHistory     = updatedHistoryOf(asset.priceHistory, newPrice),
            !.isAlertTriggered = asset.isAlertTriggered
                                 \/ alertCheck(asset.alertThreshold, newPrice)]

\* Mutant of updatedAsset: the price before the tick is appended to the
\* history instead of the new one.
updatedAssetHistoryLags(asset, index, r) ==
    LET config        == trackedConfigs[index]
        previousPrice == asset.price
        newPrice      == simulatePriceChange(asset.price, config.volatility, r)
    IN  [asset EXCEPT
            !.previousPrice    = previousPrice,
            !.price            = newPrice,
            !.changePercent    = calculateChangePercent(newPrice, previousPrice),
            !.priceHistory     = updatedHistoryOf(asset.priceHistory, previousPrice),
            !.isAlertTriggered = alertCheck(asset.alertThreshold, newPrice)]

\* Mutant of updatedAsset: previousPrice is not shifted, and the change is
\* computed against the stale previousPrice.
updatedAssetStalePrevious(asset, index, r) ==
    LET config        == trackedConfigs[index]
        previousPrice == asset.previousPrice
        newPrice      == simulatePriceChange(asset.price, config.volatility, r)
    IN  [asset EXCEPT
            !.previousPrice    = previousPrice,
            !.price            = newPrice,
            !.changePercent    = calculateChangePercent(newPrice, previousPrice),
            !.priceHistory     = updatedHistoryOf(asset.priceHistory, newPrice),
            !.isAlertTriggered = alertCheck(asset.alertThreshold, newPrice)]

\* Mutant of updatedAsset: every asset is perturbed with the volatility of
\* the first configuration entry.
updatedAssetFirstConfig(asset, index, r) ==
    LET config        == trackedConfigs[1]
        previousPrice == asset.price
        newPrice      == simulatePriceChange(asset.price, config.volatility, r)
    IN  [asset EXCEPT
            !.previousPrice    = previousPrice,
            !.price            = newPrice,
            !.changePercent    = calculateChangePercent(newPrice, previousPrice),
            !.priceHistory     = updatedHistoryOf(asset.priceHistory, newPrice),
            !.isAlertTriggered = alertCheck(asset.alertThreshold, newPrice)]

\* The body of updatePrices' map callback for the asset at index, with
\* Math.random() = r/4.
updatedAsset(asset, index, r) ==
    LET config        == trackedConfigs[index]
        previousPrice == asset.price
        newPrice      == simulatePriceChange(asset.price, config.volatility, r)
    IN  [asset EXCEPT
            !.previousPrice    = previousPrice,
            !.price            = newPrice,
            !.changePercent    = calculateChangePercent(newPrice, previousPrice),
            !.priceHistory     = updatedHistoryOf(asset.priceHistory, newPrice),
            !.isAlertTriggered = alertCheck(asset.alertThreshold, newPrice)]

\* Mutant of updatePrices: the array is updated in place and published after
\* the first asset, so the collection shows one asset ticked and the rest not.
updatePricesTorn(draws) ==
    /\ rawAssets' = [i \in AssetIdx |->
                        IF i = 1 THEN updatedAsset(rawAssets[i], i, draws[i])
                        ELSE rawAssets[i]]
    /\ effectDirty' = TRUE

\* updatePrices(): map over the current array, then rawAssets.set(updatedAssets).
\* draws[i] is the Math.random() value used for the i-th asset.
updatePrices(draws) ==
    /\ rawAssets' = [i \in AssetIdx |-> updatedAsset(rawAssets[i], i, draws[i])]
    /\ effectDirty' = TRUE

\* Mutant of startPriceUpdates: the early return is missing, every call
\* subscribes a new interval.
startPriceUpdatesNoGuard ==
    /\ updateSubscription' = "open"
    /\ activeIntervals' = activeIntervals + 1
    /\ isConnected' = TRUE

\* Mutant of startPriceUpdates: isConnected.set(true) is missing.
startPriceUpdatesNoFlag ==
    IF updateSubscription = "open"
    THEN UNCHANGED <<updateSubscription, activeIntervals, isConnected>>
    ELSE /\ updateSubscription' = "open"
         /\ activeIntervals' = activeIntervals + 1
         /\ UNCHANGED isConnected

\* startPriceUpdates(): returns early when a subscription is held and not
\* closed; interval() never completes on its own, so a held subscription is
\* closed only by pauseUpdates, which also clears the field.
startPriceUpdates ==
    IF updateSubscription = "open"
    THEN UNCHANGED <<updateSubscription, activeIntervals, isConnected>>
    ELSE /\ updateSubscription' = "open"
         /\ activeIntervals' = activeIntervals + 1
         /\ isConnected' = TRUE

\* Mutant of pauseUpdatesBody: a second pause starts the interval again
\* (pause written as a toggle of the subscription).
pauseUpdatesToggling ==
    /\ IF updateSubscription # "undefined"
       THEN /\ activeIntervals' = activeIntervals - 1
            /\ updateSubscription' = "undefined"
       ELSE /\ activeIntervals' = activeIntervals + 1
            /\ updateSubscription' = "open"
    /\ isConnected' = FALSE

\* Mutant of pauseUpdatesBody: only the flag is cleared, the interval is
\* not unsubscribed.
pauseUpdatesFlagOnly ==
    /\ UNCHANGED <<updateSubscription, activeIntervals>>
    /\ isConnected' = FALSE

\* pauseUpdates(): unsubscribe and clear the field when one is held; always
\* isConnected.set(false).
pauseUpdatesBody ==
    /\ IF updateSubscription # "undefined"
       THEN /\ activeIntervals' = activeIntervals - 1
            /\ updateSubscription' = "undefined"
       ELSE UNCHANGED <<updateSubscription, activeIntervals>>
    /\ isConnected' = FALSE

\* resumeUpdates(): this.startPriceUpdates()
resumeUpdatesBody == startPriceUpdates

\* toggleUpdates(): if (this.isConnected()) pauseUpdates() else resumeUpdates()
toggleUpdatesBody ==
    IF isConnected THEN pauseUpdatesBody ELSE resumeUpdatesBody

\* Mutant of withThreshold: the flag is left for the next tick to recompute.
withThresholdLazy(asset, assetId, threshold) ==
    IF asset.id = assetId
    THEN [asset EXCEPT !.alertThreshold = threshold]
    ELSE asset

\* Mutant of withThreshold: the record is rebuilt without the spread of the
\* optional fields, so merged statistics are lost.
withThresholdNoSpread(asset, assetId, threshold) ==
    IF asset.id = assetId
    THEN [asset EXCEPT
            !.alertThreshold   = threshold,
            !.isAlertTriggered = alertCheck(threshold, asset.price),
            !.movingAverage    = Undefined,
            !.volatility       = Undefined]
    ELSE asset

\* The map callback of setAlertThreshold for one asset.
withThreshold(asset, assetId, threshold) ==
    IF asset.id = assetId
    THEN [asset EXCEPT
            !.alertThreshold   = threshold,
            !.isAlertTriggered = alertCheck(threshold, asset.price)]
    ELSE asset

\* setAlertThreshold(assetId, threshold): map, then rawAssets.set(updatedAssets).
setAlertThresholdBody(assetId, threshold) ==
    /\ rawAssets' = [i \in AssetIdx |-> withThreshold(rawAssets[i], assetId, threshold)]
    /\ effectDirty' = TRUE

\* Mutant of withStats: the id comparison is missing, every asset is merged.
withStatsAll(asset, assetId, movingAverage, volatility) ==
    [asset EXCEPT
        !.movingAverage = Some(movingAverage),
        !.volatility    = Some(volatility)]

\* Mutant of withStats: only movingAverage is written.
withStatsAverageOnly(asset, assetId, movingAverage, volatility) ==
    IF asset.id = assetId
    THEN [asset EXCEPT !.movingAverage = Some(movingAverage)]
    ELSE asset

\* The map callback of updateAssetStats for one asset.
withStats(asset, assetId, movingAverage, volatility) ==
    IF asset.id = assetId
    THEN [asset EXCEPT
            !.movingAverage = Some(movingAverage),
            !.volatility    = Some(volatility)]
    ELSE asset

\* Mutant of updateAssetStats: the result is merged into the collection as
\* it was at construction instead of the current one.
updateAssetStatsStale(assets, assetId, movingAverage, volatility) ==
    [i \in AssetIdx |-> withStats(initializeAssets[i], assetId, movingAverage, volatility)]

\* updateAssetStats(assetId, movingAverage, volatility): map, then
\* rawAssets.set(updatedAssets).
updateAssetStats(assets, assetId, movingAverage, volatility) ==
    [i \in AssetIdx |-> withStats(assets[i], assetId, movingAverage, volatility)]

\* The compare functions of the two sorts, on changePercent:
\* direction -1 is (a, b) => b.changePercent - a.changePercent (descending),
\* direction  1 is (a, b) => a.changePercent - b.changePercent (ascending).
compare(a, b, direction) == direction * (a.changePercent - b.changePercent)

\* Array.prototype.sort is stable: an element goes before the first element
\* that compares greater than it, after every element that compares equal.
RECURSIVE insertSorted(_, _, _)
insertSorted(sorted, asset, direction) ==
    IF sorted = <<>> THEN <<asset>>
    ELSE IF compare(Head(sorted), asset, direction) > 0
         THEN <<asset>> \o sorted
         ELSE <<Head(sorted)>> \o insertSorted(Tail(sorted), asset, direction)

RECURSIVE sort(_, _)
sort(array, direction) ==
    IF array = <<>> THEN <<>>
    ELSE insertSorted(sort(SubSeq(array, 1, Len(array) - 1), direction),
                      array[Len(array)], direction)

\* changePercent > 5 and changePercent < -5, in 1/100 percent.
isGainer(asset) == asset.changePercent > 500
isLoser(asset) == asset.changePercent < -500

\* Mutant of topGainersComputed: the compare function of topLosers is used.
topGainersAscending(assets) ==
    [value  |-> sort(SelectSeq(assets, isGainer), 1),
     assets |-> assets]

\* One evaluation of a computed view on the signal's array: the value it
\* returns, and the signal's array afterwards.  filter() returns a new
\* array, and sort() reorders its receiver in place: the receiver is the
\* array filter() returned, so the signal's array is as it was.
topGainersComputed(assets) ==
    [value  |-> sort(SelectSeq(assets, isGainer), -1),
     assets |-> assets]

topLosersComputed(assets) ==
    [value  |-> sort(SelectSeq(assets, isLoser), 1),
     assets |-> assets]

triggeredAlertsComputed(assets) ==
    [value  |-> SelectSeq(assets, LAMBDA asset : asset.isAlertTriggered),
     assets |-> assets]

\* The computed signals, as read in the current state.
topGainers == topGainersComputed(rawAssets).value
topLosers == topLosersComputed(rawAssets).value
triggeredAlerts == triggeredAlertsComputed(rawAssets).value

----------------------------------------------------------------------------
(* crypto-stats.worker *)

RECURSIVE Gcd(_, _)
Gcd(a, b) == IF b = 0 THEN a ELSE Gcd(b, a % b)

\* A JavaScript number that is not an integer of the model is kept as a
\* fraction in lowest terms; NaN (0 / 0) is kept as 0 over 0.
NaN == [num |-> 0, den |-> 0]
Number(n) == [num |-> n, den |-> 1]

\* The JavaScript quotient n / d of two integers, d >= 0.
Quotient(n, d) ==
    IF d = 0 THEN NaN
    ELSE LET g == Gcd(IF n < 0 THEN -n ELSE n, d)
         IN  [num |-> n \div g, den |-> d \div g]

RECURSIVE Sum(_)
Sum(s) == IF s = <<>> THEN 0 ELSE Head(s) + Sum(Tail(s))

\* Array.prototype.slice(start): a negative start counts from the end and is
\* clamped at 0; -0 is 0, so slice(-0) is the whole array.
Slice(prices, start) ==
    LET from == IF start < 0
                THEN (IF Len(prices) + start < 0 THEN 0 ELSE Len(prices) + start)
                ELSE (IF start > Len(prices) THEN Len(prices) ELSE start)
    IN  SubSeq(prices, from + 1, Len(prices))

Min(a, b) == IF a < b THEN a ELSE b

\* Mutant of calculateMovingAverage: the window is taken from the start of
\* the history (slice(0, effectiveWindow)).
calculateMovingAverageOldest(prices, windowSize) ==
    IF Len(prices) = 0 THEN Number(0)
    ELSE LET effectiveWindow == Min(windowSize, Len(prices))
             recentPrices    == SubSeq(prices, 1, effectiveWindow)
         IN  Quotient(Sum(recentPrices), Len(recentPrices))

\* calculateMovingAverage(prices, windowSize)
calculateMovingAverage(prices, windowSize) ==
    IF Len(prices) = 0 THEN Number(0)
    ELSE LET effectiveWindow == Min(windowSize, Len(prices))
             recentPrices    == Slice(prices, -effectiveWindow)
         IN  Quotient(Sum(recentPrices), Len(recentPrices))

\* Math.sqrt(x) for a quotient x >= 0: the root is kept exactly, as the
\* number whose square is x.  Two roots compare as their radicands do.
Sqrt(x) == [radicand |-> x]

RECURSIVE SumSquaredDiff(_, _, _)
\* Sum over prices of (n * price - total)^2, which is n^2 times the sum of
\* the squared differences (price - mean)^2 for mean = total / n.
SumSquaredDiff(prices, n, total) ==
    IF prices = <<>> THEN 0
    ELSE (n * Head(prices) - total) * (n * Head(prices) - total)
         + SumSquaredDiff(Tail(prices), n, total)

\* Mutant of calculateVolatility: only the moving-average window (the last
\* 10 samples) is measured.
calculateVolatilityWindowed(prices) ==
    IF Len(prices) < 2 THEN Sqrt(Number(0))
    ELSE LET recent == Slice(prices, -Min(DEFAULT_WINDOW, Len(prices)))
             n      == Len(recent)
         IN  Sqrt(Quotient(SumSquaredDiff(recent, n, Sum(recent)), n * n * n))

\* Mutant of calculateVolatility: the sample standard deviation, dividing
\* by n - 1.
calculateVolatilitySample(prices) ==
    IF Len(prices) < 2 THEN Sqrt(Number(0))
    ELSE LET n == Len(prices)
             squaredDifferencesTimesN2 == SumSquaredDiff(prices, n, Sum(prices))
         IN  Sqrt(Quotient(squaredDifferencesTimesN2, n * n * (n - 1)))

\* calculateVolatility(prices): 0 below two samples; otherwise
\*   mean = sum / n;  squaredDifferences = sum of (price - mean)^2;
\*   variance = squaredDifferences / n;  return Math.sqrt(variance)
calculateVolatility(prices) ==
    IF Len(prices) < 2 THEN Sqrt(Number(0))
    ELSE LET n == Len(prices)
             squaredDifferencesTimesN2 == SumSquaredDiff(prices, n, Sum(prices))
         IN  Sqrt(Quotient(squaredDifferencesTimesN2, n * n * n))

errorResponse ==
    [type |-> "error", data |-> Undefined,
     error |-> Some("Insufficient price data for calculations")]

readyMessage == [type |-> "ready", data |-> Undefined, error |-> Undefined]

\* Mutant of workerResponse: the validation is missing, a short or absent
\* history is computed on (volatility 0, average of what there is).
workerResponseNoValidation(request) ==
    LET windowSize   == IF IsDefined(request.windowSize)
                        THEN ValueOf(request.windowSize) ELSE DEFAULT_WINDOW
        priceHistory == IF IsDefined(request.priceHistory)
                        THEN ValueOf(request.priceHistory) ELSE <<>>
    IN  [type  |-> "stats-result",
         data  |-> Some([assetId       |-> request.assetId,
                         movingAverage |-> calculateMovingAverage(priceHistory, windowSize),
                         volatility    |-> calculateVolatility(priceHistory),
                         dataPoints    |-> Len(priceHistory),
                         rid           |-> request.rid]),
         error |-> Undefined]

\* Mutant of workerResponse: the engine keeps a count of the requests it
\* has answered and reports the samples it has seen so far.
workerResponseCounting(request) ==
    IF ~IsDefined(request.priceHistory) \/ Len(ValueOf(request.priceHistory)) < 2
    THEN errorResponse
    ELSE LET priceHistory == ValueOf(request.priceHistory)
             windowSize   == IF IsDefined(request.windowSize)
                             THEN ValueOf(request.windowSize) ELSE DEFAULT_WINDOW
         IN  [type  |-> "stats-result",
              data  |-> Some([assetId       |-> request.assetId,
                              movingAverage |-> calculateMovingAverage(priceHistory, windowSize),
                              volatility    |-> calculateVolatility(priceHistory),
                              dataPoints    |-> Len(priceHistory) + Cardinality(handled),
                              rid           |-> request.rid]),
              error |-> Undefined]

\* The message listener's answer to one calculate-stats request.  The
\* destructuring default windowSize = 10 applies when the field is absent.
\* rid is the request's identity; it stands where the result's timestamp is.
workerResponse(request) ==
    LET windowSize == IF IsDefined(request.windowSize)
                      THEN ValueOf(request.windowSize) ELSE DEFAULT_WINDOW
    IN  IF ~IsDefined(request.priceHistory) \/ Len(ValueOf(request.priceHistory)) < 2
        THEN errorResponse
        ELSE LET priceHistory == ValueOf(request.priceHistory)
             IN  [type  |-> "stats-result",
                  data  |-> Some([assetId       |-> request.assetId,
                                  movingAverage |-> calculateMovingAverage(priceHistory, windowSize),
                                  volatility    |-> calculateVolatility(priceHistory),
                                  dataPoints    |-> Len(priceHistory),
                                  rid           |-> request.rid]),
                  error |-> Undefined]

\* Mutant of workerListener: the history is a buffer shared with the store,
\* the worker computes on the asset's history as it is when it runs.
workerListenerSharedHistory ==
    /\ worker = "running"
    /\ toWorker # <<>>
    /\ LET request  == Head(toWorker)
           shared   == rawAssets[CHOOSE i \in AssetIdx :
                                    rawAssets[i].id = request.assetId].priceHistory
           response == workerResponse([request EXCEPT !.priceHistory = Some(shared)])
       IN  /\ fromWorker' = Append(fromWorker, response)
           /\ handled' = handled \cup
                  {[rid      |-> request.rid,
                    assetId  |-> request.assetId,
                    samples  |-> IF IsDefined(request.priceHistory)
                                 THEN Len(ValueOf(request.priceHistory)) ELSE 0,
                    type     |-> response.type,
                    request  |-> request,
                    response |-> response]}
    /\ toWorker' = Tail(toWorker)
    /\ lastOp' = "workerListener"
    /\ UNCHANGED <<storeVars, effectDirty, worker, statsStopped, statsEvents, nextRid>>

\* One step of the worker's message listener: the oldest posted request is
\* answered with exactly the message workerResponse gives.  The try block
\* holds no operation that can throw on these payloads, so the catch branch
\* is not reachable.
workerListener ==
    /\ worker = "running"
    /\ toWorker # <<>>
    /\ LET request  == Head(toWorker)
           response == workerResponse(request)
       IN  /\ fromWorker' = Append(fromWorker, response)
           /\ handled' = handled \cup
                  {[rid      |-> request.rid,
                    assetId  |-> request.assetId,
                    samples  |-> IF IsDefined(request.priceHistory)
                                 THEN Len(ValueOf(request.priceHistory)) ELSE 0,
                    type     |-> response.type,
                    request  |-> request,
                    response |-> response]}
    /\ toWorker' = Tail(toWorker)
    /\ lastOp' = "workerListener"
    /\ UNCHANGED <<storeVars, effectDirty, worker, statsStopped, statsEvents, nextRid>>

----------------------------------------------------------------------------
(* WebWorkerService *)

\* Mutant of calculateStats: the test of this.worker is missing, a request
\* is posted whether or not a worker exists.
calculateStatsNoGuard(queue, assetId, priceHistory, windowSize, rid) ==
    Append(queue,
           [type         |-> "calculate-stats",
            assetId      |-> assetId,
            priceHistory |-> priceHistory,
            windowSize   |-> Some(IF IsDefined(windowSize)
                                  THEN ValueOf(windowSize) ELSE DEFAULT_WINDOW),
            rid          |-> rid])

\* calculateStats(assetId, priceHistory, windowSize = 10): returns without
\* posting when no worker was created; otherwise worker.postMessage(request).
\* A message posted to a terminated worker is discarded by the platform.
\* The value is the queue of posted messages after the call.
calculateStats(queue, assetId, priceHistory, windowSize, rid) ==
    IF worker # "running" THEN queue
    ELSE Append(queue,
                [type         |-> "calculate-stats",
                 assetId      |-> assetId,
                 priceHistory |-> priceHistory,
                 windowSize   |-> Some(IF IsDefined(windowSize)
                                       THEN ValueOf(windowSize) ELSE DEFAULT_WINDOW),
                 rid          |-> rid])

\* Mutant of handleWorkerMessage: the listener is registered twice, each
\* result is emitted twice.
handleWorkerMessageTwice(response) ==
    IF response.type = "stats-result" /\ IsDefined(response.data) /\ ~statsStopped
    THEN LET result == ValueOf(response.data)
         IN  /\ statsEvents' = statsEvents \o <<result, result>>
             /\ rawAssets' = updateAssetStats(rawAssets, result.assetId,
                                              result.movingAverage, result.volatility)
             /\ effectDirty' = TRUE
    ELSE UNCHANGED <<statsEvents, rawAssets, effectDirty>>

\* Mutant of handleWorkerMessage: the type test is missing, so an 'error'
\* or 'ready' message is passed to statsSubject.next as well, with its
\* absent data.
handleWorkerMessageAnyType(response) ==
    IF statsStopped THEN UNCHANGED <<statsEvents, rawAssets, effectDirty>>
    ELSE IF response.type = "stats-result" /\ IsDefined(response.data)
    THEN LET result == ValueOf(response.data)
         IN  /\ statsEvents' = Append(statsEvents, result)
             /\ rawAssets' = updateAssetStats(rawAssets, result.assetId,
                                              result.movingAverage, result.volatility)
             /\ effectDirty' = TRUE
    ELSE /\ statsEvents' = Append(statsEvents,
                                  [assetId |-> "undefined", movingAverage |-> NaN,
                                   volatility |-> Sqrt(NaN), dataPoints |-> 0, rid |-> 0])
         /\ UNCHANGED <<rawAssets, effectDirty>>

\* Mutant of handleWorkerMessage: the consumer has not subscribed to
\* stats$, a result is emitted and merged nowhere.
handleWorkerMessageUnsubscribed(response) ==
    IF response.type = "stats-result" /\ IsDefined(response.data) /\ ~statsStopped
    THEN LET result == ValueOf(response.data)
         IN  /\ statsEvents' = Append(statsEvents, result)
             /\ UNCHANGED <<rawAssets, effectDirty>>
    ELSE UNCHANGED <<statsEvents, rawAssets, effectDirty>>

\* handleWorkerMessage(response), with the consumer's ngOnInit subscription
\* to stats$ run inside statsSubject.next: a 'stats-result' with data is
\* emitted (unless the subject has completed) and merged by
\* updateAssetStats; 'error' and 'ready' are only logged.
handleWorkerMessage(response) ==
    IF response.type = "stats-result" /\ IsDefined(response.data) /\ ~statsStopped
    THEN LET result == ValueOf(response.data)
         IN  /\ statsEvents' = Append(statsEvents, result)
             /\ rawAssets' = updateAssetStats(rawAssets, result.assetId,
                                              result.movingAverage, result.volatility)
             /\ effectDirty' = TRUE
    ELSE UNCHANGED <<statsEvents, rawAssets, effectDirty>>

\* Mutant of workerOnMessage: the newest undelivered message is handled
\* first.
workerOnMessageNewestFirst ==
    /\ fromWorker # <<>>
    /\ handleWorkerMessage(fromWorker[Len(fromWorker)])
    /\ fromWorker' = SubSeq(fromWorker, 1, Len(fromWorker) - 1)
    /\ lastOp' = "workerOnMessage"
    /\ UNCHANGED <<updateSubscription, activeIntervals, isConnected, ticks,
                   worker, toWorker, statsStopped, handled, nextRid>>

\* worker.onmessage: the oldest undelivered message of the worker is handled.
workerOnMessage ==
    /\ fromWorker # <<>>
    /\ handleWorkerMessage(Head(fromWorker))
    /\ fromWorker' = Tail(fromWorker)
    /\ lastOp' = "workerOnMessage"
    /\ UNCHANGED <<updateSubscription, activeIntervals, isConnected, ticks,
                   worker, toWorker, statsStopped, handled, nextRid>>

\* Mutant of bridgeOnDestroy: worker.terminate() is missing, only the
\* subject is completed.
bridgeOnDestroyNoTerminate ==
    /\ statsStopped' = TRUE
    /\ lastOp' = "bridgeOnDestroy"
    /\ UNCHANGED <<storeVars, effectDirty, worker, toWorker, fromWorker,
                   statsEvents, handled, nextRid>>

\* WebWorkerService.ngOnDestroy(): worker.terminate() when a worker exists,
\* then statsSubject.complete().  Terminating discards the requests the
\* worker has not handled and the responses not yet delivered.
bridgeOnDestroy ==
    /\ worker' = IF worker = "undefined" THEN "undefined" ELSE "terminated"
    /\ toWorker' = IF worker = "undefined" THEN toWorker ELSE <<>>
    /\ fromWorker' = IF worker = "undefined" THEN fromWorker ELSE <<>>
    /\ statsStopped' = TRUE
    /\ lastOp' = "bridgeOnDestroy"
    /\ UNCHANGED <<storeVars, effectDirty, statsEvents, handled, nextRid>>

----------------------------------------------------------------------------
(* CryptoMonitorComponent *)

\* Mutant of effectCalls: the test of the history's length is missing, a
\* request is sent for every asset.
RECURSIVE effectCallsNoGuard(_, _, _, _)
effectCallsNoGuard(queue, assets, i, rid) ==
    IF i > Len(assets) THEN queue
    ELSE effectCallsNoGuard(calculateStats(queue, assets[i].id,
                                           Some(assets[i].priceHistory),
                                           Some(DEFAULT_WINDOW), rid + 1),
                            assets, i + 1, rid + 1)

\* The forEach of the effect from the asset at index i on: one calculateStats
\* call per asset whose history has at least 2 samples.  queue is the
\* worker's queue so far, rid the number of requests posted so far.
RECURSIVE effectCalls(_, _, _, _)
effectCalls(queue, assets, i, rid) ==
    IF i > Len(assets) THEN queue
    ELSE IF Len(assets[i].priceHistory) >= 2
         THEN effectCalls(calculateStats(queue, assets[i].id,
                                         Some(assets[i].priceHistory),
                                         Some(DEFAULT_WINDOW), rid + 1),
                          assets, i + 1, rid + 1)
         ELSE effectCalls(queue, assets, i + 1, rid)

\* The effect registered in the constructor re-runs after rawAssets was set.
consumerEffect ==
    /\ effectDirty
    /\ LET posted == effectCalls(toWorker, rawAssets, 1, nextRid)
       IN  /\ nextRid + (Len(posted) - Len(toWorker)) <= MaxRequests
           /\ toWorker' = posted
           /\ nextRid' = nextRid + (Len(posted) - Len(toWorker))
    /\ effectDirty' = FALSE
    /\ lastOp' = "consumerEffect"
    /\ UNCHANGED <<storeVars, worker, fromWorker, statsStopped, statsEvents, handled>>

----------------------------------------------------------------------------
(* Operations as steps *)

\* The interval fires: updatePrices() with one Math.random() draw per asset.
timerTick ==
    /\ activeIntervals >= 1
    /\ ticks < MaxTicks
    /\ \E draws \in [AssetIdx -> RandomValues] : updatePrices(draws)
    /\ ticks' = ticks + 1
    /\ lastOp' = "updatePrices"
    /\ UNCHANGED <<updateSubscription, activeIntervals, isConnected, bridgeVars>>

\* The Math.random() value of the long run for asset i at a given tick: the
\* draws cycle through 0, 1/4, 1/2, 3/4, shifted from asset to asset.
scheduledDraw(tick, i) == (tick + i) % 4

\* The interval fires in the long run: updatePrices() with the scheduled draws.
scheduledTick ==
    /\ activeIntervals >= 1
    /\ ticks < MaxLongTicks
    /\ updatePrices([i \in AssetIdx |-> scheduledDraw(ticks, i)])
    /\ ticks' = ticks + 1
    /\ lastOp' = "updatePrices"
    /\ UNCHANGED <<updateSubscription, activeIntervals, isConnected, bridgeVars>>

pauseUpdates ==
    /\ pauseUpdatesBody
    /\ lastOp' = "pauseUpdates"
    /\ UNCHANGED <<rawAssets, ticks, effectDirty, bridgeVars>>

resumeUpdates ==
    /\ resumeUpdatesBody
    /\ lastOp' = "resumeUpdates"
    /\ UNCHANGED <<rawAssets, ticks, effectDirty, bridgeVars>>

\* Mutant of toggleUpdates: pausing also cancels the requests the worker
\* has not handled yet.
toggleUpdatesCancelling ==
    /\ toggleUpdatesBody
    /\ lastOp' = "toggleUpdates"
    /\ toWorker' = IF isConnected THEN <<>> ELSE toWorker
    /\ UNCHANGED <<rawAssets, ticks, effectDirty, worker, fromWorker, statsStopped,
                   statsEvents, handled, nextRid>>

toggleUpdates ==
    /\ toggleUpdatesBody
    /\ lastOp' = "toggleUpdates"
    /\ UNCHANGED <<rawAssets, ticks, effectDirty, bridgeVars>>

\* CryptoDataService.ngOnDestroy(): this.pauseUpdates()
storeOnDestroy ==
    /\ pauseUpdatesBody
    /\ lastOp' = "storeOnDestroy"
    /\ UNCHANGED <<rawAssets, ticks, effectDirty, bridgeVars>>

AssetIds == {trackedConfigs[i].id : i \in AssetIdx}
\* Asset ids callers pass: the tracked ones and one the store does not know.
AssetIdInputs == AssetIds \cup {"DOGE"}
\* Thresholds callers pass: none, or the initial ADA price (which ADA falls
\* below and climbs back over, and XRP always exceeds).
ThresholdInputs == {Undefined, Some(5200)}

\* onThresholdChanged / setAlertThreshold(assetId, threshold)
setAlertThreshold ==
    /\ \E assetId \in AssetIdInputs, threshold \in ThresholdInputs :
           setAlertThresholdBody(assetId, threshold)
    /\ lastOp' = "setAlertThreshold"
    /\ UNCHANGED <<updateSubscription, activeIntervals, isConnected, ticks, bridgeVars>>

\* Statistics a caller of updateAssetStats passes.
MovingAverageInputs == {Quotient(10385, 2)}
VolatilityInputs == {Sqrt(Number(0)), Sqrt(Number(225))}

\* updateAssetStats(assetId, movingAverage, volatility) called on the store
\* by any holder of the service.
mergeStats ==
    /\ \E assetId \in AssetIdInputs, movingAverage \in MovingAverageInputs,
          volatility \in VolatilityInputs :
           rawAssets' = updateAssetStats(rawAssets, assetId, movingAverage, volatility)
    /\ effectDirty' = TRUE
    /\ lastOp' = "updateAssetStats"
    /\ UNCHANGED <<updateSubscription, activeIntervals, isConnected, ticks, bridgeVars>>

\* A history longer than the default window.
LongHistory == <<1, 2, 3, 4, 5, 6, 7, 8, 9, 10, 11, 12>>

\* Histories a caller of calculateStats passes: none, empty, 1, 2 and 3
\* samples, and one of 12 samples.
HistoryInputs ==
    {Undefined, Some(<<>>), Some(<<5200>>), Some(<<5200, 5216>>),
     Some(<<5200, 5216, 5185>>), Some(<<10, 20, 30>>), Some(LongHistory)}
\* Window sizes a caller passes: none (the default applies), or 2.
WindowInputs == {Undefined, Some(2)}

\* calculateStats(assetId, priceHistory, windowSize) called on the bridge by
\* any holder of the service.
requestStats ==
    /\ nextRid < MaxDirect
    /\ \E assetId \in {"ADA", "DOGE"}, priceHistory \in HistoryInputs,
          windowSize \in WindowInputs :
           toWorker' = calculateStats(toWorker, assetId, priceHistory, windowSize,
                                      nextRid + 1)
    /\ nextRid' = nextRid + 1
    /\ lastOp' = "calculateStats"
    /\ UNCHANGED <<storeVars, effectDirty, worker, fromWorker, statsStopped,
                   statsEvents, handled>>

----------------------------------------------------------------------------
(* The composed application *)

\* The state once both services and the consumer are constructed: the store
\* constructor has run startPriceUpdates(); the bridge either created the
\* worker, whose script has posted 'ready', or could not (no Worker support,
\* or the constructor threw); the effect has run once, on single-sample
\* histories.
Init ==
    /\ rawAssets = initializeAssets
    /\ updateSubscription = "open"
    /\ activeIntervals = 1
    /\ isConnected = TRUE
    /\ ticks = 0
    /\ effectDirty = FALSE
    /\ worker \in {"running", "undefined"}
    /\ toWorker = <<>>
    /\ fromWorker = IF worker = "running" THEN <<readyMessage>> ELSE <<>>
    /\ statsStopped = FALSE
    /\ statsEvents = <<>>
    /\ handled = {}
    /\ nextRid = 0
    /\ lastOp = "constructor"

\* The consumer component drives the store through toggleUpdates and
\* onThresholdChanged only; everything else is the timer, the effect and
\* the message traffic with the worker.
Next ==
    \/ timerTick
    \/ toggleUpdates
    \/ setAlertThreshold
    \/ consumerEffect
    \/ workerListener
    \/ workerOnMessage
    \/ bridgeOnDestroy

Spec == Init /\ [][Next]_vars

(* The composed application when the user only pauses and resumes: the     *)
(* timer, the effect and the message traffic with the worker.              *)

NextTraffic ==
    \/ timerTick
    \/ toggleUpdates
    \/ consumerEffect
    \/ workerListener
    \/ workerOnMessage
    \/ bridgeOnDestroy

SpecTraffic == Init /\ [][NextTraffic]_vars

(* The worker on its own: a caller has posted a sequence of requests, the  *)
(* worker answers them one by one and the answers are delivered.           *)

\* Histories of the posted requests: none, one sample, equal samples, the
\* documented examples, and one longer than the default window.
EngineHistories ==
    {Undefined, Some(<<5>>), Some(<<5200, 5200, 5200>>), Some(<<10, 20, 30>>),
     Some(<<70, 72, 71, 69, 73>>), Some(<<50, 90, 60, 95, 55>>), Some(LongHistory)}

\* The queue after calculateStats was called with the first k of the calls.
RECURSIVE postAll(_, _)
postAll(calls, k) ==
    IF k = 0 THEN <<>>
    ELSE calculateStats(postAll(calls, k - 1), "ADA", calls[k][1], calls[k][2], k)

InitEngine ==
    /\ rawAssets = initializeAssets
    /\ updateSubscription = "open"
    /\ activeIntervals = 1
    /\ isConnected = TRUE
    /\ ticks = 0
    /\ effectDirty = FALSE
    /\ worker = "running"
    /\ toWorker \in {postAll(calls, Len(calls)) :
                        calls \in UNION {[1..n -> EngineHistories \X WindowInputs] :
                                            n \in 1..MaxEngineRequests}}
    /\ fromWorker = <<readyMessage>>
    /\ statsStopped = FALSE
    /\ statsEvents = <<>>
    /\ handled = {}
    /\ nextRid = Len(toWorker)
    /\ lastOp = "calculateStats"

NextEngine ==
    \/ workerListener
    \/ workerOnMessage

SpecEngine == InitEngine /\ [][NextEngine]_vars

(* The store under every call its public interface allows, the bridge in   *)
(* disabled mode (no worker), so that calculateStats posts nothing.        *)

InitStore == Init /\ worker = "undefined"

NextStore ==
    \/ timerTick
    \/ pauseUpdates
    \/ resumeUpdates
    \/ toggleUpdates
    \/ storeOnDestroy
    \/ setAlertThreshold
    \/ mergeStats
    \/ consumerEffect

SpecStore == InitStore /\ [][NextStore]_vars

(* The store over a long run of ticks: the history reaches its cap and     *)
(* evicts.                                                                 *)

NextLong ==
    \/ scheduledTick
    \/ pauseUpdates
    \/ resumeUpdates
    \/ setAlertThreshold

SpecLong == InitStore /\ [][NextLong]_vars

(* The bridge and the worker under arbitrary calculateStats calls.         *)

InitWorker == Init /\ worker = "running"

NextWorker ==
    \/ requestStats
    \/ workerListener
    \/ workerOnMessage
    \/ bridgeOnDestroy

SpecWorker == InitWorker /\ [][NextWorker]_vars

(* The computed views as functions of the collection.  With the            *)
(* volatilities of cryptoConfigs a tick moves a price by at most 0.6        *)
(* percent, so in the running store topGainers and topLosers are empty;     *)
(* here the signal holds collections whose changePercent lies on both       *)
(* sides of both thresholds, and the views are read.                        *)

\* changePercent values: beyond, at and inside the thresholds of 5 and -5.
ChangeInputs == {-650, -500, 0, 500, 650, 800}

\* The asset of configuration entry i with a given changePercent and alert state.
viewAsset(i, changePercent, triggered) ==
    [id               |-> cryptoConfigs[i].id,
     name             |-> cryptoConfigs[i].name,
     symbol           |-> cryptoConfigs[i].symbol,
     price            |-> cryptoConfigs[i].initialPrice,
     previousPrice    |-> cryptoConfigs[i].initialPrice,
     changePercent    |-> changePercent,
     priceHistory     |-> <<cryptoConfigs[i].initialPrice>>,
     alertThreshold   |-> IF triggered THEN Some(cryptoConfigs[i].initialPrice)
                          ELSE Undefined,
     isAlertTriggered |-> triggered,
     movingAverage    |-> Undefined,
     volatility       |-> Undefined]

\* Collections of the first MaxViewAssets configuration entries, in
\* configuration order.
ViewCollections ==
    {[i \in 1..MaxViewAssets |-> viewAsset(i, changes[i], alerts[i])] :
        changes \in [1..MaxViewAssets -> ChangeInputs],
        alerts \in [1..MaxViewAssets -> BOOLEAN]}

readTopGainers ==
    /\ rawAssets' = topGainersComputed(rawAssets).assets
    /\ lastOp' = "topGainers"
    /\ UNCHANGED <<updateSubscription, activeIntervals, isConnected, ticks,
                   effectDirty, bridgeVars>>

readTopLosers ==
    /\ rawAssets' = topLosersComputed(rawAssets).assets
    /\ lastOp' = "topLosers"
    /\ UNCHANGED <<updateSubscription, activeIntervals, isConnected, ticks,
                   effectDirty, bridgeVars>>

readTriggeredAlerts ==
    /\ rawAssets' = triggeredAlertsComputed(rawAssets).assets
    /\ lastOp' = "triggeredAlerts"
    /\ UNCHANGED <<updateSubscription, activeIntervals, isConnected, ticks,
                   effectDirty, bridgeVars>>

InitViews ==
    /\ rawAssets \in ViewCollections
    /\ updateSubscription = "open"
    /\ activeIntervals = 1
    /\ isConnected = TRUE
    /\ ticks = 0
    /\ effectDirty = FALSE
    /\ worker = "undefined"
    /\ toWorker = <<>>
    /\ fromWorker = <<>>
    /\ statsStopped = FALSE
    /\ statsEvents = <<>>
    /\ handled = {}
    /\ nextRid = 0
    /\ lastOp = "rawAssets.set"

NextViews ==
    \/ readTopGainers
    \/ readTopLosers
    \/ readTriggeredAlerts

SpecViews == InitViews /\ [][NextViews]_vars

(* calculateChangePercent as a function of two prices: the collection      *)
(* holds one asset whose price and previousPrice are given, and the         *)
(* change is computed from them as updatePrices computes it.                *)

\* Prices, in 1/10000 dollar: zero, the smallest, neighbours whose change
\* rounds to and away from zero or lies on a rounding boundary, and the
\* initial ADA price with the prices a tick takes it to.
PriceInputs == {0, 1, 99, 100, 101, 5200, 5216, 5184, 19999, 20000, 20001}

InitChange ==
    /\ rawAssets \in
         {<<[viewAsset(5, 0, FALSE) EXCEPT !.price = current,
                                           !.previousPrice = previous,
                                           !.priceHistory = <<previous, current>>]>> :
             current \in PriceInputs, previous \in PriceInputs}
    /\ updateSubscription = "open"
    /\ activeIntervals = 1
    /\ isConnected = TRUE
    /\ ticks = 0
    /\ effectDirty = FALSE
    /\ worker = "undefined"
    /\ toWorker = <<>>
    /\ fromWorker = <<>>
    /\ statsStopped = FALSE
    /\ statsEvents = <<>>
    /\ handled = {}
    /\ nextRid = 0
    /\ lastOp = "prices"

\* const changePercent = calculateChangePercent(newPrice, previousPrice)
applyChangePercent ==
    /\ rawAssets' = [i \in DOMAIN rawAssets |->
                        [rawAssets[i] EXCEPT !.changePercent =
                            calculateChangePercent(rawAssets[i].price,
                                                   rawAssets[i].previousPrice)]]
    /\ lastOp' = "calculateChangePercent"
    /\ UNCHANGED <<updateSubscription, activeIntervals, isConnected, ticks,
                   effectDirty, bridgeVars>>

SpecChange == InitChange /\ [][applyChangePercent]_vars

(* Construction of the store as a function of the configuration list:     *)
(* the service is constructed on a list of entries of cryptoConfigs that   *)
(* may be empty or repeat an entry, then paused and resumed.               *)

\* Configuration lists of up to MaxConfigLen entries among the last three
\* of cryptoConfigs.
ConfigInputs ==
    UNION {[1..n -> {cryptoConfigs[k] : k \in 4..6}] : n \in 0..MaxConfigLen}

\* Before the service is constructed.
InitConfig ==
    /\ rawAssets = <<>>
    /\ updateSubscription = "undefined"
    /\ activeIntervals = 0
    /\ isConnected = FALSE
    /\ ticks = 0
    /\ effectDirty = FALSE
    /\ worker = "undefined"
    /\ toWorker = <<>>
    /\ fromWorker = <<>>
    /\ statsStopped = FALSE
    /\ statsEvents = <<>>
    /\ handled = {}
    /\ nextRid = 0
    /\ lastOp = "new"

\* The field initializers and the constructor of CryptoDataService:
\* rawAssets = signal(initializeAssets()), then startPriceUpdates().
construct ==
    /\ lastOp = "new"
    /\ \E configs \in ConfigInputs : rawAssets' = initializeAssetsFrom(configs)
    /\ startPriceUpdates
    /\ lastOp' = "constructor"
    /\ UNCHANGED <<ticks, effectDirty, bridgeVars>>

NextConfig ==
    \/ construct
    \/ lastOp # "new" /\ pauseUpdates
    \/ lastOp # "new" /\ resumeUpdates
    \/ lastOp # "new" /\ toggleUpdates

SpecConfig == InitConfig /\ [][NextConfig]_vars

(* The prices over ticks with every draw of Math.random(), from the        *)
(* configured initial prices and from prices a long fall has brought near  *)
(* the point where the rounding absorbs the perturbation.                  *)

\* Math.random() as quarters: 0, 1/4, 1/2, 3/4.
AllRandomValues == 0..3

\* Starting prices of the two tracked assets.
StartPrices == << {84, 5200}, {101, 5800} >>

InitPrices ==
    /\ rawAssets \in
         {[i \in AssetIdx |->
              [initializeAssets[i] EXCEPT !.price = start[i],
                                          !.previousPrice = start[i],
                                          !.priceHistory = <<start[i]>>]] :
             start \in [AssetIdx -> StartPrices[1] \cup StartPrices[2]]}
    /\ \A i \in AssetIdx : rawAssets[i].price \in StartPrices[i]
    /\ updateSubscription = "open"
    /\ activeIntervals = 1
    /\ isConnected = TRUE
    /\ ticks = 0
    /\ effectDirty = FALSE
    /\ worker = "undefined"
    /\ toWorker = <<>>
    /\ fromWorker = <<>>
    /\ statsStopped = FALSE
    /\ statsEvents = <<>>
    /\ handled = {}
    /\ nextRid = 0
    /\ lastOp = "constructor"

\* The interval fires: updatePrices() with any draws.
anyTick ==
    /\ activeIntervals >= 1
    /\ ticks < MaxTicks
    /\ \E draws \in [AssetIdx -> AllRandomValues] : updatePrices(draws)
    /\ ticks' = ticks + 1
    /\ lastOp' = "updatePrices"
    /\ UNCHANGED <<updateSubscription, activeIntervals, isConnected, bridgeVars>>

SpecPrices == InitPrices /\ [][anyTick]_vars

(* The composed application over a long run of ticks: the histories reach *)
(* their cap while the effect sends requests and the worker answers.  The  *)
(* effect's first run, which every effect has after construction, is       *)
(* still pending in the initial state.                                      *)

InitLongTraffic ==
    /\ rawAssets = initializeAssets
    /\ updateSubscription = "open"
    /\ activeIntervals = 1
    /\ isConnected = TRUE
    /\ ticks = 0
    /\ effectDirty = TRUE
    /\ worker = "running"
    /\ toWorker = <<>>
    /\ fromWorker = <<readyMessage>>
    /\ statsStopped = FALSE
    /\ statsEvents = <<>>
    /\ handled = {}
    /\ nextRid = 0
    /\ lastOp = "constructor"

NextLongTraffic ==
    \/ scheduledTick
    \/ consumerEffect
    \/ workerListener
    \/ workerOnMessage

SpecLongTraffic == InitLongTraffic /\ [][NextLongTraffic]_vars

(* The composed application under fair scheduling, with the worker        *)
(* running and the consumer subscribed: the timer fires while it is        *)
(* active, the effect runs after the signal was set, the worker handles    *)
(* the requests posted to it and its responses are delivered.  The user    *)
(* pauses and resumes at will.  A tick is taken only while the requests    *)
(* its effect will send are within MaxRequests, and draws as the long run  *)
(* does.                                                                    *)

budgetedTick ==
    /\ nextRid + NumAssets <= MaxRequests
    /\ activeIntervals >= 1
    /\ ticks < MaxTicks
    /\ updatePrices([i \in AssetIdx |-> scheduledDraw(ticks, i)])
    /\ ticks' = ticks + 1
    /\ lastOp' = "updatePrices"
    /\ UNCHANGED <<updateSubscription, activeIntervals, isConnected, bridgeVars>>

NextLive ==
    \/ budgetedTick
    \/ toggleUpdates
    \/ consumerEffect
    \/ workerListener
    \/ workerOnMessage

SpecLive ==
    /\ InitLongTraffic
    /\ [][NextLive]_vars
    /\ WF_vars(budgetedTick)
    /\ WF_vars(consumerEffect)
    /\ WF_vars(workerListener)
    /\ WF_vars(workerOnMessage)

(* The worker on requests whose window size is 0 or negative: a caller of *)
(* calculateStats passes such a window, the worker answers.                *)

\* Window sizes of the posted requests: 0, negative ones inside and beyond
\* the histories' lengths, and 2.
WindowSizes == {Some(0), Some(-1), Some(-2), Some(-5), Some(2)}

\* Histories of the posted requests.
WindowHistories == {Some(<<5200, 5216>>), Some(<<10, 20, 30>>), Some(LongHistory)}

InitWindow ==
    /\ rawAssets = initializeAssets
    /\ updateSubscription = "open"
    /\ activeIntervals = 1
    /\ isConnected = TRUE
    /\ ticks = 0
    /\ effectDirty = FALSE
    /\ worker = "running"
    /\ toWorker \in {postAll(calls, Len(calls)) :
                        calls \in UNION {[1..n -> WindowHistories \X WindowSizes] :
                                            n \in 1..MaxDirect}}
    /\ fromWorker = <<readyMessage>>
    /\ statsStopped = FALSE
    /\ statsEvents = <<>>
    /\ handled = {}
    /\ nextRid = Len(toWorker)
    /\ lastOp = "calculateStats"

SpecWindow == InitWindow /\ [][NextEngine]_vars

----------------------------------------------------------------------------
(* Claims *)

Asset(i) == rawAssets[i]
History(i) == rawAssets[i].priceHistory

\* C1: in every reachable state every asset's isAlertTriggered is true
\* exactly when its alertThreshold is set and its price is at or above it;
\* the flag does not latch.
C1_AlertIsFunctionOfPriceAndThreshold ==
    \A i \in AssetIdx :
        Asset(i).isAlertTriggered
            <=> (Asset(i).alertThreshold # <<>>
                 /\ Asset(i).price >= Asset(i).alertThreshold[1])

\* A tick has just taken an asset from at-or-above its threshold to below
\* it, and the flag is off again.
C1_Witness ==
    /\ lastOp = "updatePrices"
    /\ \E i \in AssetIdx :
        /\ Asset(i).alertThreshold # <<>>
        /\ Asset(i).previousPrice >= Asset(i).alertThreshold[1]
        /\ Asset(i).price < Asset(i).alertThreshold[1]
        /\ ~Asset(i).isAlertTriggered

\* C2: every asset's priceHistory always has between 1 and 20 entries, its
\* length never decreases, and once it is 20 it stays 20.
C2_HistoryBounded ==
    /\ [](\A i \in AssetIdx : Len(History(i)) >= 1 /\ Len(History(i)) <= 20)
    /\ [][\A i \in AssetIdx :
            /\ Len(History(i)') >= Len(History(i))
            /\ (Len(History(i)) = 20 => Len(History(i)') = 20)]_vars

\* Ticks went on after the history reached 20 entries.
C2_Witness ==
    /\ ticks >= 21
    /\ \A i \in AssetIdx : Len(History(i)) = 20

\* C3: eviction is FIFO.  A tick on a history of fewer than 20 entries
\* appends the new price; a tick on a history of 20 entries drops the first
\* entry and appends the new price at the end; nothing else changes a
\* history.
C3_FifoEviction ==
    [][\A i \in AssetIdx :
        IF ticks' = ticks + 1
        THEN IF Len(History(i)) < 20
             THEN History(i)' = Append(History(i), Asset(i)'.price)
             ELSE History(i)' = Append(SubSeq(History(i), 2, 20), Asset(i)'.price)
        ELSE History(i)' = History(i)]_vars

\* A full history whose oldest entry is no longer the initial price: the
\* initial sample has been evicted.
C3_Witness ==
    /\ lastOp = "updatePrices"
    /\ ticks >= 20
    /\ \E i \in AssetIdx :
        /\ Len(History(i)) = 20
        /\ History(i)[1] # trackedConfigs[i].initialPrice

\* C4: at most one interval subscription is ever active, and after
\* resumeUpdates exactly one is.  A tick is one firing of one active
\* interval, so one active interval means one tick per period.
C4_OneTickSource ==
    /\ [](activeIntervals <= 1)
    /\ [][lastOp' = "resumeUpdates" => activeIntervals' = 1]_vars

\* toggleUpdates has just resumed a paused store (isConnected was false, so
\* a pause came before), and one interval is active.
C4_Witness ==
    /\ lastOp = "toggleUpdates"
    /\ isConnected
    /\ updateSubscription = "open"
    /\ activeIntervals = 1

\* C5: a tick replaces the whole collection at once.  In every state every
\* asset has received the same number of price updates: each history holds
\* the initial sample and one sample per tick so far (up to the cap).
C5_NoTornTick ==
    \A i \in AssetIdx :
        /\ Len(History(i)) = (IF ticks + 1 <= 20 THEN ticks + 1 ELSE 20)
        /\ \A j \in AssetIdx : Len(History(i)) = Len(History(j))

\* The effect has just read the collection after the second tick and posted
\* a request per asset.
C5_Witness ==
    /\ lastOp = "consumerEffect"
    /\ ticks = 2
    /\ Len(toWorker) >= NumAssets
    /\ \A i \in AssetIdx : Len(History(i)) = 3

\* C6: setAlertThreshold(assetId, t) for a known asset takes effect in the
\* same step, without a tick: afterwards the asset's alertThreshold is t and
\* isAlertTriggered is (t is set and the current price >= t).
C6_ThresholdImmediate ==
    [][\A assetId \in AssetIds, t \in ThresholdInputs :
        (lastOp' = "setAlertThreshold" /\ setAlertThresholdBody(assetId, t))
        => /\ ticks' = ticks
           /\ \A i \in AssetIdx :
                Asset(i).id = assetId
                => /\ Asset(i)'.alertThreshold = t
                   /\ Asset(i)'.price = Asset(i).price
                   /\ Asset(i)'.isAlertTriggered
                        = (t # <<>> /\ Asset(i).price >= t[1])]_vars

\* Before any tick, a threshold equal to the current price has just been
\* set and the alert is on.
C6_Witness ==
    /\ lastOp = "setAlertThreshold"
    /\ ticks = 0
    /\ \E i \in AssetIdx :
        /\ Asset(i).alertThreshold = <<Asset(i).price>>
        /\ Asset(i).isAlertTriggered

\* Number of StatsResult events on stats$ for request rid.
EventsFor(rid) == Cardinality({k \in DOMAIN statsEvents : statsEvents[k].rid = rid})

\* The worker's stats-result for request rid is posted and not yet delivered.
ResultInFlight(rid) ==
    \E k \in DOMAIN fromWorker :
        /\ fromWorker[k].type = "stats-result"
        /\ fromWorker[k].data[1].rid = rid

\* C7 as stated: every request with at least 2 samples that the running
\* worker answered has exactly one StatsResult event on stats$ once its
\* response has left the channel.
C7_ExactlyOneResultEvent ==
    \A h \in handled :
        (h.samples >= 2 /\ ~ResultInFlight(h.rid)) => EventsFor(h.rid) = 1

\* C7 amended: no request ever has two StatsResult events; an event carries
\* the assetId of its request; a request that failed validation has none;
\* and a request with at least 2 samples that the running worker answered
\* has exactly one once its response has left the channel, unless the
\* bridge was shut down (ngOnDestroy), which discards undelivered responses.
C7_OneResultEventUnlessShutDown ==
    /\ \A k \in DOMAIN statsEvents :
        \E h \in handled :
            /\ h.rid = statsEvents[k].rid
            /\ h.assetId = statsEvents[k].assetId
            /\ h.samples >= 2
    /\ \A rid \in 1..nextRid : EventsFor(rid) <= 1
    /\ \A h \in handled :
        /\ h.samples < 2 => EventsFor(h.rid) = 0
        /\ (h.samples >= 2 /\ ~ResultInFlight(h.rid) /\ ~statsStopped)
            => EventsFor(h.rid) = 1

\* Two requests were answered and delivered: one with enough samples, which
\* has its event, and one that failed validation, which has none.
C7_Witness ==
    /\ fromWorker = <<>>
    /\ ~statsStopped
    /\ \E h \in handled : h.samples >= 2 /\ EventsFor(h.rid) = 1
    /\ \E h \in handled : h.samples < 2 /\ EventsFor(h.rid) = 0

\* C8: a request whose priceHistory is missing or has fewer than 2 samples
\* is answered by exactly one message, of type 'error' with the
\* insufficient-data text and no data, and by no stats-result.
C8_InsufficientDataError ==
    [][(lastOp' = "workerListener" /\ toWorker # <<>>
        /\ (Head(toWorker).priceHistory = <<>>
            \/ Len(Head(toWorker).priceHistory[1]) < 2))
       => /\ Len(fromWorker') = Len(fromWorker) + 1
          /\ SubSeq(fromWorker', 1, Len(fromWorker)) = fromWorker
          /\ fromWorker'[Len(fromWorker')].type = "error"
          /\ fromWorker'[Len(fromWorker')].data = <<>>
          /\ fromWorker'[Len(fromWorker')].error
               = <<"Insufficient price data for calculations">>]_vars

\* The worker has just answered a one-sample request with an error message.
C8_Witness ==
    /\ lastOp = "workerListener"
    /\ fromWorker # <<>>
    /\ fromWorker[Len(fromWorker)].type = "error"
    /\ \E h \in handled : h.samples = 1 /\ h.type = "error"

\* The fields of an asset that a stats merge must leave alone.
SameButStats(a, b) ==
    /\ a.id = b.id /\ a.name = b.name /\ a.symbol = b.symbol
    /\ a.price = b.price
    /\ a.previousPrice = b.previousPrice
    /\ a.changePercent = b.changePercent
    /\ a.priceHistory = b.priceHistory
    /\ a.alertThreshold = b.alertThreshold
    /\ a.isAlertTriggered = b.isAlertTriggered

\* C9: updateAssetStats for a known assetId changes only that asset's
\* movingAverage and volatility; every other field of it and every field of
\* every other asset is unchanged; for an unknown assetId nothing changes.
C9_MergeFrame ==
    [][\A assetId \in AssetIdInputs, m \in MovingAverageInputs, v \in VolatilityInputs :
        (lastOp' = "updateAssetStats"
         /\ rawAssets' = updateAssetStats(rawAssets, assetId, m, v))
        => \A i \in AssetIdx :
            IF Asset(i).id = assetId
            THEN /\ SameButStats(Asset(i)', Asset(i))
                 /\ Asset(i)'.movingAverage = <<m>>
                 /\ Asset(i)'.volatility = <<v>>
            ELSE Asset(i)' = Asset(i)]_vars

\* Statistics have just been merged into an asset that has ticked and has a
\* triggered alert, while another asset has none.
C9_Witness ==
    /\ lastOp = "updateAssetStats"
    /\ ticks >= 1
    /\ \E i, j \in AssetIdx :
        /\ Asset(i).movingAverage # <<>>
        /\ Asset(i).isAlertTriggered
        /\ Asset(j).movingAverage = <<>>
        /\ Asset(j).alertThreshold # <<>>

\* The fields of an asset that setAlertThreshold must leave alone.
SameButAlert(a, b) ==
    /\ a.id = b.id /\ a.name = b.name /\ a.symbol = b.symbol
    /\ a.price = b.price
    /\ a.previousPrice = b.previousPrice
    /\ a.changePercent = b.changePercent
    /\ a.priceHistory = b.priceHistory
    /\ a.movingAverage = b.movingAverage
    /\ a.volatility = b.volatility

\* C10: setAlertThreshold changes nothing except the named asset's
\* alertThreshold and isAlertTriggered; with an unknown assetId no field of
\* any asset changes (and the call always completes: it has no guard).
C10_ThresholdFrame ==
    [][\A assetId \in AssetIdInputs, t \in ThresholdInputs :
        (lastOp' = "setAlertThreshold" /\ setAlertThresholdBody(assetId, t))
        => /\ \A i \in AssetIdx :
                IF Asset(i).id = assetId
                THEN SameButAlert(Asset(i)', Asset(i))
                ELSE Asset(i)' = Asset(i)
           /\ UNCHANGED <<updateSubscription, activeIntervals, isConnected, ticks,
                          bridgeVars>>]_vars

\* A threshold has just been set on an asset that has ticked and holds
\* merged statistics, while another asset has no threshold.
C10_Witness ==
    /\ lastOp = "setAlertThreshold"
    /\ ticks >= 1
    /\ \E i, j \in AssetIdx :
        /\ Asset(i).alertThreshold # <<>>
        /\ Asset(i).movingAverage # <<>>
        /\ Asset(j).alertThreshold = <<>>
        /\ Asset(j).movingAverage # <<>>

\* C11: initialization creates exactly one asset per configuration entry,
\* in order, with price = previousPrice = initialPrice, priceHistory =
\* [initialPrice], changePercent = 0, isAlertTriggered = false and no
\* alertThreshold, movingAverage or volatility.
C11_InitialAssets ==
    lastOp = "constructor"
    => /\ DOMAIN rawAssets = 1..Len(trackedConfigs)
       /\ \A i \in 1..Len(trackedConfigs) :
            /\ Asset(i).id = trackedConfigs[i].id
            /\ Asset(i).price = trackedConfigs[i].initialPrice
            /\ Asset(i).previousPrice = trackedConfigs[i].initialPrice
            /\ Asset(i).priceHistory = <<trackedConfigs[i].initialPrice>>
            /\ Asset(i).changePercent = 0
            /\ Asset(i).isAlertTriggered = FALSE
            /\ Asset(i).alertThreshold = <<>>
            /\ Asset(i).movingAverage = <<>>
            /\ Asset(i).volatility = <<>>

\* The store has just been constructed: its collection is in place and its
\* first interval is subscribed.
C11_Witness ==
    /\ lastOp = "constructor"
    /\ ticks = 0
    /\ activeIntervals = 1
    /\ Len(rawAssets) = 2
    /\ Asset(1).id = "ADA" /\ Asset(2).id = "XRP"

\* Position in the collection of the asset with a given id.
PositionOf(id) == CHOOSE i \in DOMAIN rawAssets : rawAssets[i].id = id

\* view holds exactly the assets of the collection that satisfy keep, each once.
ExactlyThose(view, keep(_)) ==
    /\ \A k \in DOMAIN view : \E i \in DOMAIN rawAssets :
            view[k] = rawAssets[i] /\ keep(rawAssets[i])
    /\ \A i \in DOMAIN rawAssets :
            keep(rawAssets[i])
            => Cardinality({k \in DOMAIN view : view[k] = rawAssets[i]}) = 1

\* C12: topGainers is exactly the assets with changePercent > 5, ordered by
\* changePercent descending; topLosers exactly those with changePercent <
\* -5, ascending; triggeredAlerts exactly those with isAlertTriggered, in
\* collection order; equal changePercent keeps collection order; and
\* reading a view leaves the collection as it was.
C12_ViewsAgree ==
    /\ [](/\ ExactlyThose(topGainers, LAMBDA a : a.changePercent > 500)
          /\ \A k, l \in DOMAIN topGainers :
                k < l => \/ topGainers[k].changePercent > topGainers[l].changePercent
                         \/ /\ topGainers[k].changePercent = topGainers[l].changePercent
                            /\ PositionOf(topGainers[k].id) < PositionOf(topGainers[l].id)
          /\ ExactlyThose(topLosers, LAMBDA a : a.changePercent < -500)
          /\ \A k, l \in DOMAIN topLosers :
                k < l => \/ topLosers[k].changePercent < topLosers[l].changePercent
                         \/ /\ topLosers[k].changePercent = topLosers[l].changePercent
                            /\ PositionOf(topLosers[k].id) < PositionOf(topLosers[l].id)
          /\ ExactlyThose(triggeredAlerts, LAMBDA a : a.isAlertTriggered)
          /\ \A k, l \in DOMAIN triggeredAlerts :
                k < l => PositionOf(triggeredAlerts[k].id)
                         < PositionOf(triggeredAlerts[l].id))
    /\ [][lastOp' \in {"topGainers", "topLosers", "triggeredAlerts"}
            => rawAssets' = rawAssets]_vars

\* topGainers has just been read on a collection that is not in its order:
\* the view starts with the last asset and keeps the first two, which are
\* tied, in collection order.
C12_Witness ==
    /\ lastOp = "topGainers"
    /\ Len(topGainers) = 3
    /\ topGainers[1].id = rawAssets[3].id
    /\ topGainers[2].id = rawAssets[1].id
    /\ topGainers[3].id = rawAssets[2].id
    /\ topGainers[2].changePercent = topGainers[3].changePercent
    /\ Len(triggeredAlerts) = 2

\* C13: pauseUpdates on a paused store and resumeUpdates on a running store
\* leave the tick source (the subscription and the live intervals), the
\* running flag and the asset collection exactly as they were.
C13_PauseResumeIdempotent ==
    [][/\ (lastOp' = "pauseUpdates" /\ ~isConnected /\ activeIntervals = 0)
          => UNCHANGED <<updateSubscription, activeIntervals, isConnected, rawAssets>>
       /\ (lastOp' = "resumeUpdates" /\ isConnected /\ activeIntervals = 1)
          => UNCHANGED <<updateSubscription, activeIntervals, isConnected, rawAssets>>]_vars

\* pauseUpdates has just run after a tick and the store is paused: in this
\* state a further pauseUpdates is a pause of a paused store.
C13_Witness ==
    /\ lastOp = "pauseUpdates"
    /\ ticks >= 1
    /\ ~isConnected
    /\ updateSubscription = "undefined"
    /\ activeIntervals = 0

\* C14: while the store is paused (from pauseUpdates to the next resume or
\* toggle) no tick occurs: every asset's price, previousPrice, changePercent
\* and priceHistory stay as they are in every step taken in that interval.
C14_NoTickWhilePaused ==
    [][~isConnected
       => /\ ticks' = ticks
          /\ \A i \in AssetIdx :
                /\ Asset(i)'.price = Asset(i).price
                /\ Asset(i)'.previousPrice = Asset(i).previousPrice
                /\ Asset(i)'.changePercent = Asset(i).changePercent
                /\ Asset(i)'.priceHistory = Asset(i).priceHistory]_vars

\* Statistics have just been merged into an asset of a store that was
\* paused after its first tick; its threshold was set as well.
C14_Witness ==
    /\ ~isConnected
    /\ activeIntervals = 0
    /\ lastOp = "updateAssetStats"
    /\ ticks = 1
    /\ \E i \in AssetIdx :
        /\ Asset(i).movingAverage # <<>>
        /\ Asset(i).alertThreshold # <<>>
        /\ Len(History(i)) = 2

\* C15: pausing does not cancel requested statistics.  The pause itself
\* leaves the requests and responses in the channel as they are; while the
\* store is paused the running worker can still handle a posted request and
\* a posted response can still be delivered; and a result delivered while
\* the store is paused is merged into its asset.
C15_PauseKeepsStats ==
    /\ [][lastOp' = "toggleUpdates"
            => UNCHANGED <<worker, toWorker, fromWorker, statsStopped, statsEvents>>]_vars
    /\ [][(/\ ~isConnected
            /\ lastOp' = "workerOnMessage"
            /\ fromWorker # <<>>
            /\ Head(fromWorker).type = "stats-result"
            /\ ~statsStopped)
           => \A i \in AssetIdx :
                Asset(i).id = Head(fromWorker).data[1].assetId
                => /\ Asset(i)'.movingAverage = <<Head(fromWorker).data[1].movingAverage>>
                   /\ Asset(i)'.volatility = <<Head(fromWorker).data[1].volatility>>]_vars
    /\ [](~isConnected
          => /\ (worker = "running" /\ toWorker # <<>>) => ENABLED workerListener
             /\ fromWorker # <<>> => ENABLED workerOnMessage)

\* toggleUpdates has just paused the store while a request is posted and
\* not handled and a result is posted and not delivered.
C15_Witness ==
    /\ lastOp = "toggleUpdates"
    /\ ~isConnected
    /\ worker = "running"
    /\ toWorker # <<>>
    /\ \E k \in DOMAIN fromWorker : fromWorker[k].type = "stats-result"

\* The last StatsResult event for the asset with a given id, if any.
LastEventFor(assetId) ==
    LET ks == {k \in DOMAIN statsEvents : statsEvents[k].assetId = assetId}
    IN  IF ks = {} THEN <<>>
        ELSE <<statsEvents[CHOOSE k \in ks : \A l \in ks : l <= k]>>

\* C16: results are merged in the order their requests were sent: the
\* request ids of the events on stats$ increase, so for one asset a result
\* of an older snapshot (no more samples, no later request) never follows
\* that of a newer one; and in every state an asset holds the statistics of
\* the latest-sent request for it whose result was delivered (none if no
\* result was delivered for it).
C16_MergeInSendOrder ==
    /\ \A k, l \in DOMAIN statsEvents :
            k < l => /\ statsEvents[k].rid < statsEvents[l].rid
                     /\ statsEvents[k].assetId = statsEvents[l].assetId
                        => statsEvents[k].dataPoints <= statsEvents[l].dataPoints
    /\ \A i \in AssetIdx :
            IF LastEventFor(Asset(i).id) = <<>>
            THEN Asset(i).movingAverage = <<>> /\ Asset(i).volatility = <<>>
            ELSE /\ Asset(i).movingAverage = <<LastEventFor(Asset(i).id)[1].movingAverage>>
                 /\ Asset(i).volatility = <<LastEventFor(Asset(i).id)[1].volatility>>
                 /\ \A k \in DOMAIN statsEvents :
                        statsEvents[k].assetId = Asset(i).id
                        => statsEvents[k].rid <= LastEventFor(Asset(i).id)[1].rid

\* Two results for the same asset, computed from a 2-sample and a 3-sample
\* snapshot, have been merged, the second just now; the asset holds the
\* second, which differs from the first.
C16_Witness ==
    /\ lastOp = "workerOnMessage"
    /\ \E k, l \in DOMAIN statsEvents :
        /\ k < l
        /\ l = Len(statsEvents)
        /\ statsEvents[k].assetId = statsEvents[l].assetId
        /\ statsEvents[k].dataPoints = 2
        /\ statsEvents[l].dataPoints = 3
        /\ statsEvents[k].movingAverage # statsEvents[l].movingAverage
        /\ \E i \in AssetIdx :
            /\ Asset(i).id = statsEvents[l].assetId
            /\ Asset(i).movingAverage = <<statsEvents[l].movingAverage>>

\* C17: only 'stats-result' messages reach stats$: delivering an 'error'
\* or a 'ready' message emits nothing and changes no asset, and every event
\* on stats$ is the result of a request the worker answered with a
\* 'stats-result'.
C17_OnlyResultsEmitted ==
    /\ [](\A k \in DOMAIN statsEvents :
            \E h \in handled :
                h.rid = statsEvents[k].rid /\ h.type = "stats-result")
    /\ [][(/\ lastOp' = "workerOnMessage"
            /\ fromWorker # <<>>
            /\ Head(fromWorker).type \in {"error", "ready"})
           => UNCHANGED <<statsEvents, rawAssets>>]_vars

\* An 'error' answer to a request for ADA has just been delivered after a
\* result for ADA was merged: nothing was emitted for it, and ADA holds the
\* statistics of the result.
C17_Witness ==
    /\ lastOp = "workerOnMessage"
    /\ fromWorker = <<>>
    /\ ~statsStopped
    /\ Len(statsEvents) = 1
    /\ statsEvents[1].rid = 1
    /\ \E h \in handled : h.rid = 2 /\ h.type = "error" /\ h.assetId = "ADA"
    /\ Asset(1).movingAverage = <<statsEvents[1].movingAverage>>
    /\ Asset(1).volatility = <<statsEvents[1].volatility>>

\* C18: when no worker could be created the bridge is disabled for good:
\* calculateStats posts nothing, no message is ever in the channel, no
\* StatsResult is emitted, every asset's movingAverage and volatility stay
\* absent, and the effect's calls change nothing but the effect's own state.
C18_DisabledMode ==
    /\ [](worker = "undefined"
          => /\ toWorker = <<>>
             /\ fromWorker = <<>>
             /\ statsEvents = <<>>
             /\ handled = {}
             /\ \A i \in AssetIdx :
                    Asset(i).movingAverage = <<>> /\ Asset(i).volatility = <<>>)
    /\ [][worker = "undefined"
          => /\ worker' = "undefined"
             /\ lastOp' = "consumerEffect"
                => UNCHANGED <<storeVars, bridgeVars>>]_vars

\* In disabled mode the store has ticked twice and is running, and a
\* threshold has just been set and triggered; the history has all three
\* samples and no statistics.
C18_Witness ==
    /\ worker = "undefined"
    /\ lastOp = "setAlertThreshold"
    /\ ticks = 2
    /\ isConnected
    /\ \E i \in AssetIdx :
        /\ Asset(i).isAlertTriggered
        /\ Len(History(i)) = 3
        /\ Asset(i).movingAverage = <<>>

\* C19: after the bridge's ngOnDestroy no StatsResult is delivered and no
\* statistics are merged; the requests and responses pending at shutdown
\* are discarded, and so is every request sent afterwards: the channel
\* stays empty and the worker answers nothing; a second ngOnDestroy changes
\* nothing.
C19_Shutdown ==
    /\ [](statsStopped => /\ worker # "running"
                          /\ toWorker = <<>>
                          /\ fromWorker = <<>>)
    /\ [][statsStopped
          => /\ UNCHANGED <<statsEvents, rawAssets, handled, statsStopped, worker>>
             /\ lastOp' = "bridgeOnDestroy"
                => UNCHANGED <<storeVars, effectDirty, bridgeVars>>]_vars

\* A request with enough samples was answered by the worker, the bridge was
\* shut down before the result was delivered, and a second request has just
\* been sent to the shut-down bridge: no event, nothing in the channel.
C19_Witness ==
    /\ statsStopped
    /\ lastOp = "calculateStats"
    /\ nextRid = 2
    /\ statsEvents = <<>>
    /\ toWorker = <<>>
    /\ \E h \in handled : h.rid = 1 /\ h.samples >= 2
    /\ Cardinality(handled) = 1

\* A calculate-stats request as the worker receives it.
RequestOf(priceHistory, windowSize) ==
    [type |-> "calculate-stats", assetId |-> "ADA",
     priceHistory |-> <<priceHistory>>, windowSize |-> windowSize, rid |-> 1]

\* C20: calculateMovingAverage is 0 on an empty sequence; ([10,20,30], 2)
\* gives 25 and ([10,20,30], 10) gives 20; a request without windowSize is
\* computed with w = 10; and every result the worker posts carries the
\* arithmetic mean of exactly the last min(w, length) samples of its
\* request's history.
C20_MovingAverage ==
    /\ [](/\ calculateMovingAverage(<<>>, 1) = [num |-> 0, den |-> 1]
          /\ calculateMovingAverage(<<>>, 10) = [num |-> 0, den |-> 1]
          /\ calculateMovingAverage(<<10, 20, 30>>, 2) = [num |-> 25, den |-> 1]
          /\ calculateMovingAverage(<<10, 20, 30>>, 10) = [num |-> 20, den |-> 1]
          /\ workerResponse(RequestOf(LongHistory, <<>>)).data[1].movingAverage
                = [num |-> 15, den |-> 2]
          /\ \A k \in DOMAIN toWorker : toWorker[k].windowSize \in {<<2>>, <<10>>})
    /\ [][(/\ lastOp' = "workerListener"
            /\ toWorker # <<>>
            /\ Head(toWorker).priceHistory # <<>>
            /\ Len(Head(toWorker).priceHistory[1]) >= 2)
           => LET prices   == Head(toWorker).priceHistory[1]
                  w        == Head(toWorker).windowSize[1]
                  n        == IF w < Len(prices) THEN w ELSE Len(prices)
                  lastN    == [k \in 1..n |-> prices[Len(prices) - n + k]]
                  response == fromWorker'[Len(fromWorker')]
              IN  /\ response.type = "stats-result"
                  /\ response.data[1].movingAverage.den > 0
                  /\ response.data[1].movingAverage.num * n
                        = response.data[1].movingAverage.den * Sum(lastN)]_vars

\* The worker has just answered a request for the 12-sample history sent
\* without a window size: the average is that of its last 10 samples, 7.5,
\* not that of all 12, 6.5.
C20_Witness ==
    /\ lastOp = "workerListener"
    /\ fromWorker # <<>>
    /\ LET response == fromWorker[Len(fromWorker)]
       IN  /\ response.type = "stats-result"
           /\ response.data[1].dataPoints = 12
           /\ response.data[1].movingAverage = [num |-> 15, den |-> 2]

RECURSIVE SumOfSquares(_)
SumOfSquares(prices) ==
    IF prices = <<>> THEN 0
    ELSE Head(prices) * Head(prices) + SumOfSquares(Tail(prices))

\* C21: calculateVolatility is 0 below 2 samples; every result the worker
\* posts carries the population standard deviation of ALL samples of its
\* request's history: its square v is at least 0 and v * n^2 = n * (sum of
\* squares) - (sum)^2, the variance with divisor n; it is 0 when all
\* samples are equal.
C21_PopulationDeviation ==
    /\ [](/\ calculateVolatility(<<>>).radicand = [num |-> 0, den |-> 1]
          /\ calculateVolatility(<<5200>>).radicand = [num |-> 0, den |-> 1])
    /\ [][(/\ lastOp' = "workerListener"
            /\ toWorker # <<>>
            /\ Head(toWorker).priceHistory # <<>>
            /\ Len(Head(toWorker).priceHistory[1]) >= 2)
           => LET prices == Head(toWorker).priceHistory[1]
                  n      == Len(prices)
                  v      == fromWorker'[Len(fromWorker')].data[1].volatility.radicand
              IN  /\ v.den > 0
                  /\ v.num >= 0
                  /\ v.num * n * n
                        = v.den * (n * SumOfSquares(prices) - Sum(prices) * Sum(prices))
                  /\ (\A k \in DOMAIN prices : prices[k] = prices[1]) => v.num = 0]_vars

\* The worker has just answered a request for the 12-sample history with
\* window 2: the average is that of the last 2 samples (11.5), the
\* volatility that of all 12 (variance 143/12).
C21_Witness ==
    /\ lastOp = "workerListener"
    /\ fromWorker # <<>>
    /\ LET response == fromWorker[Len(fromWorker)]
       IN  /\ response.type = "stats-result"
           /\ response.data[1].dataPoints = 12
           /\ response.data[1].movingAverage = [num |-> 23, den |-> 2]
           /\ response.data[1].volatility.radicand = [num |-> 143, den |-> 12]

\* The answered requests for a given history.
HandledFor(priceHistory) ==
    {h \in handled : h.request.priceHistory = <<priceHistory>>}

\* The root of v lies between lo / 10000 and hi / 10000.
RootBetween(v, lo, hi) ==
    /\ lo * lo * v.den <= v.num * 100000000
    /\ v.num * 100000000 <= hi * hi * v.den

\* volatility([5]) is 0; every answer to [70,72,71,69,73] has a volatility
\* between lo / 10000 and hi / 10000, and every answer to [50,90,60,95,55]
\* a volatility at least 10 times that.
VolatilityExamples(lo, hi) ==
    /\ calculateVolatility(<<5>>).radicand = [num |-> 0, den |-> 1]
    /\ \A a \in HandledFor(<<70, 72, 71, 69, 73>>) :
            /\ a.type = "stats-result"
            /\ RootBetween(a.response.data[1].volatility.radicand, lo, hi)
            /\ \A b \in HandledFor(<<50, 90, 60, 95, 55>>) :
                    /\ b.type = "stats-result"
                    /\ b.response.data[1].volatility.radicand.num
                            * a.response.data[1].volatility.radicand.den
                        >= 100 * a.response.data[1].volatility.radicand.num
                               * b.response.data[1].volatility.radicand.den

\* C22 as stated: volatility([5]) is 0; volatility([70,72,71,69,73]) is
\* 1.4283 to within 0.0005; volatility([50,90,60,95,55]) is substantially
\* (10 times or more) larger.
C22_VolatilityExamplesAsStated == VolatilityExamples(14278, 14288)

\* C22 amended: volatility([5]) is 0; volatility([70,72,71,69,73]) is the
\* square root of 2, 1.4142 to within 0.0005; volatility([50,90,60,95,55])
\* is substantially (10 times or more) larger.
C22_VolatilityExamples == VolatilityExamples(14137, 14147)

\* The worker has answered both example histories: variance 2 for the
\* first, 350 for the second.
C22_Witness ==
    /\ \E a \in HandledFor(<<70, 72, 71, 69, 73>>) :
            a.response.data[1].volatility.radicand = [num |-> 2, den |-> 1]
    /\ \E b \in HandledFor(<<50, 90, 60, 95, 55>>) :
            b.response.data[1].volatility.radicand = [num |-> 350, den |-> 1]

C23_ChangePercent ==
    lastOp = "calculateChangePercent"
    => \A i \in DOMAIN rawAssets :
        LET current  == Asset(i).price
            previous == Asset(i).previousPrice
            result   == Asset(i).changePercent
            exact    == (current - previous) * 10000
        IN  /\ previous = 0 => result = 0
            /\ previous # 0
               => /\ 2 * (exact - result * previous) >= -previous
                  /\ 2 * (exact - result * previous) < previous
                  /\ result > 0 => current > previous
                  /\ result < 0 => current < previous

\* The change has been computed for a positive price after a previous price
\* of 0, and is 0.
C23_Witness ==
    /\ lastOp = "calculateChangePercent"
    /\ Asset(1).previousPrice = 0
    /\ Asset(1).price = 5200
    /\ Asset(1).changePercent = 0

C26_PricesPositive ==
    \A i \in DOMAIN rawAssets :
        /\ rawAssets[i].price > 0
        /\ rawAssets[i].previousPrice > 0
        /\ \A k \in DOMAIN rawAssets[i].priceHistory :
               rawAssets[i].priceHistory[k] > 0

\* A tick has drawn the largest fall at a low price: one asset fell by the
\* smallest step and the rounding left another where it was.
C26_Witness ==
    /\ lastOp = "updatePrices"
    /\ ticks = MaxTicks
    /\ \E i \in DOMAIN rawAssets :
          /\ rawAssets[i].price < 100
          /\ rawAssets[i].price = rawAssets[i].previousPrice
          /\ rawAssets[i].priceHistory[1] > rawAssets[i].price

\* C27: in every reachable state the collection holds exactly one asset per
\* configured id, in configuration order, with the configuration's id, name
\* and symbol; and a tick perturbs each asset with the volatility of the
\* configuration entry that bears the asset's id.
C27_OneAssetPerConfig ==
    /\ [](/\ Len(rawAssets) = Len(trackedConfigs)
          /\ \A i \in DOMAIN rawAssets :
                /\ rawAssets[i].id = trackedConfigs[i].id
                /\ rawAssets[i].name = trackedConfigs[i].name
                /\ rawAssets[i].symbol = trackedConfigs[i].symbol)
    /\ [][lastOp' = "updatePrices"
           => \A i \in DOMAIN rawAssets :
                \E k \in DOMAIN trackedConfigs, r \in RandomValues :
                    /\ trackedConfigs[k].id = rawAssets[i].id
                    /\ rawAssets'[i].price =
                          simulatePriceChange(rawAssets[i].price,
                                              trackedConfigs[k].volatility, r)]_vars

\* Ticks, a threshold and a merge have all acted on the collection.
C27_Witness ==
    /\ lastOp = "updatePrices"
    /\ ticks = MaxTicks
    /\ IsDefined(rawAssets[1].alertThreshold)
    /\ IsDefined(rawAssets[2].movingAverage)
    /\ rawAssets[2].price # trackedConfigs[2].initialPrice

\* C28: no update of the collection is lost.  A tick keeps every asset's
\* threshold and merged statistics; a stats merge keeps the price, previous
\* price, change, history and alert fields a tick wrote; setting a threshold
\* keeps the prices, the history and the statistics.
C28_NoLostUpdate ==
    [][/\ Len(rawAssets') = Len(rawAssets)
       /\ lastOp' = "updatePrices"
          => \A i \in DOMAIN rawAssets :
                /\ rawAssets'[i].alertThreshold = rawAssets[i].alertThreshold
                /\ rawAssets'[i].movingAverage = rawAssets[i].movingAverage
                /\ rawAssets'[i].volatility = rawAssets[i].volatility
       /\ lastOp' = "workerOnMessage"
          => \A i \in DOMAIN rawAssets :
                /\ rawAssets'[i].price = rawAssets[i].price
                /\ rawAssets'[i].previousPrice = rawAssets[i].previousPrice
                /\ rawAssets'[i].changePercent = rawAssets[i].changePercent
                /\ rawAssets'[i].priceHistory = rawAssets[i].priceHistory
                /\ rawAssets'[i].alertThreshold = rawAssets[i].alertThreshold
                /\ rawAssets'[i].isAlertTriggered = rawAssets[i].isAlertTriggered
       /\ lastOp' = "setAlertThreshold"
          => \A i \in DOMAIN rawAssets :
                /\ rawAssets'[i].price = rawAssets[i].price
                /\ rawAssets'[i].previousPrice = rawAssets[i].previousPrice
                /\ rawAssets'[i].changePercent = rawAssets[i].changePercent
                /\ rawAssets'[i].priceHistory = rawAssets[i].priceHistory
                /\ rawAssets'[i].movingAverage = rawAssets[i].movingAverage
                /\ rawAssets'[i].volatility = rawAssets[i].volatility]_vars

\* A threshold was set and a result merged after the first tick, and the
\* second tick has run: the asset still carries both.
C28_Witness ==
    /\ lastOp = "updatePrices"
    /\ ticks = 2
    /\ \E i \in DOMAIN rawAssets :
          /\ IsDefined(rawAssets[i].alertThreshold)
          /\ IsDefined(rawAssets[i].movingAverage)
          /\ IsDefined(rawAssets[i].volatility)
          /\ Len(rawAssets[i].priceHistory) = 3

\* C29: statistics requests are driven by price ticks only: each tick
\* causes at most one request per asset, and neither a merge of a result
\* nor a threshold change causes any, so the requests sent so far never
\* outnumber the assets times the ticks so far.
C29_RequestsDrivenByTicks ==
    nextRid <= NumAssets * ticks

\* C30: every request the consumer's effect sends carries between 2 and
\* PRICE_HISTORY_SIZE samples and the window size 10, and none is sent
\* before the first tick; the worker never answers with an 'error'; and the
\* effect's sending changes nothing of the store or its timer.
C30_ConsumerRequests ==
    /\ [](/\ \A k \in DOMAIN toWorker :
                /\ IsDefined(toWorker[k].priceHistory)
                /\ Len(ValueOf(toWorker[k].priceHistory)) >= 2
                /\ Len(ValueOf(toWorker[k].priceHistory)) <= PRICE_HISTORY_SIZE
                /\ toWorker[k].windowSize = Some(10)
          /\ ticks = 0 => nextRid = 0
          /\ \A h \in handled : h.type = "stats-result" /\ h.samples >= 2
          /\ \A k \in DOMAIN fromWorker : fromWorker[k].type # "error")
    /\ [][lastOp' = "consumerEffect" => UNCHANGED storeVars]_vars

\* The effect has sent requests with the full history of 20 samples after
\* an eviction, the worker has answered one, and a tick has run while a
\* request was still waiting.
C30_Witness ==
    /\ lastOp = "updatePrices"
    /\ ticks > PRICE_HISTORY_SIZE
    /\ toWorker # <<>>
    /\ Len(ValueOf(toWorker[1].priceHistory)) = PRICE_HISTORY_SIZE
    /\ \E h \in handled : h.samples = PRICE_HISTORY_SIZE

\* C31: for every asset, one tick sets previousPrice to the price before
\* the tick, price to a newly simulated price, changePercent to
\* calculateChangePercent(new price, old price) and isAlertTriggered to the
\* test of the new price against the unchanged threshold; id, name, symbol,
\* alertThreshold, movingAverage and volatility are as they were.
C31_TickFrame ==
    [][lastOp' = "updatePrices"
       => \A i \in AssetIdx :
            /\ Asset(i)'.previousPrice = Asset(i).price
            /\ \E r \in RandomValues :
                  Asset(i)'.price =
                      simulatePriceChange(Asset(i).price, trackedConfigs[i].volatility, r)
            /\ Asset(i)'.changePercent =
                  calculateChangePercent(Asset(i)'.price, Asset(i).price)
            /\ Asset(i)'.isAlertTriggered =
                  (/\ Asset(i).alertThreshold # <<>>
                   /\ Asset(i)'.price >= Asset(i).alertThreshold[1])
            /\ Asset(i)'.id = Asset(i).id
            /\ Asset(i)'.name = Asset(i).name
            /\ Asset(i)'.symbol = Asset(i).symbol
            /\ Asset(i)'.alertThreshold = Asset(i).alertThreshold
            /\ Asset(i)'.movingAverage = Asset(i).movingAverage
            /\ Asset(i)'.volatility = Asset(i).volatility]_vars

\* The second tick has run on an asset that carries a threshold and merged
\* statistics: its price rose after a fall, and the alert is recomputed.
C31_Witness ==
    /\ lastOp = "updatePrices"
    /\ ticks = 2
    /\ \E i \in AssetIdx :
          /\ Asset(i).alertThreshold # <<>>
          /\ Asset(i).movingAverage # <<>>
          /\ Asset(i).changePercent > 0
          /\ Asset(i).previousPrice < History(i)[1]
          /\ ~Asset(i).isAlertTriggered

\* C32: the history handed to the engine is a snapshot.  A request carries
\* the asset's history as it is when the effect sends it; a tick changes no
\* request that is waiting; every result on stats$ has the movingAverage,
\* volatility and dataPoints of the history its request was sent with; and
\* a step of the engine changes nothing of the store.
C32_HistorySnapshot ==
    /\ [][lastOp' = "consumerEffect"
           => \A k \in DOMAIN toWorker' :
                k > Len(toWorker)
                => \E i \in AssetIdx :
                      /\ toWorker'[k].assetId = Asset(i).id
                      /\ toWorker'[k].priceHistory = <<History(i)>>]_vars
    /\ [][lastOp' = "updatePrices" => toWorker' = toWorker]_vars
    /\ [][lastOp' = "workerListener" => UNCHANGED storeVars]_vars
    /\ [](\A k \in DOMAIN statsEvents :
            \E h \in handled :
                /\ h.rid = statsEvents[k].rid
                /\ statsEvents[k].assetId = h.request.assetId
                /\ statsEvents[k].dataPoints = Len(h.request.priceHistory[1])
                /\ statsEvents[k].movingAverage =
                      calculateMovingAverage(h.request.priceHistory[1],
                                             h.request.windowSize[1])
                /\ statsEvents[k].volatility =
                      calculateVolatility(h.request.priceHistory[1]))

\* A request was sent after the first tick, the second tick ran before its
\* result was delivered, and the result, computed on the two samples the
\* request was sent with, has been merged into an asset whose history now
\* has three.
C32_Witness ==
    /\ lastOp = "workerOnMessage"
    /\ ticks = 2
    /\ \E k \in DOMAIN statsEvents, i \in AssetIdx :
          /\ k = Len(statsEvents)
          /\ statsEvents[k].assetId = Asset(i).id
          /\ statsEvents[k].dataPoints = 2
          /\ Len(History(i)) = 3
          /\ Asset(i).movingAverage = <<statsEvents[k].movingAverage>>

\* C33: an asset's movingAverage and volatility are both absent or both
\* present, and present exactly when a stats result for the asset has been
\* merged; only the merge of a delivered result changes them, and once
\* present they stay present.
C33_StatsPresence ==
    /\ [](\A i \in AssetIdx :
            /\ (Asset(i).movingAverage # <<>>) <=> (Asset(i).volatility # <<>>)
            /\ (Asset(i).movingAverage # <<>>)
                  <=> (\E k \in DOMAIN statsEvents : statsEvents[k].assetId = Asset(i).id))
    /\ [][\A i \in AssetIdx :
            /\ (\/ Asset(i)'.movingAverage # Asset(i).movingAverage
                \/ Asset(i)'.volatility # Asset(i).volatility)
               => lastOp' = "workerOnMessage"
            /\ Asset(i).movingAverage # <<>> => Asset(i)'.movingAverage # <<>>
            /\ Asset(i).volatility # <<>> => Asset(i)'.volatility # <<>>]_vars

\* A tick has just run on a store where one asset holds statistics of its
\* history before that tick (they no longer describe its current history)
\* and carries a threshold, while the other asset has no statistics yet.
C33_Witness ==
    /\ lastOp = "updatePrices"
    /\ \E i, j \in AssetIdx :
          /\ Asset(i).movingAverage # <<>>
          /\ Asset(i).alertThreshold # <<>>
          /\ Asset(i).movingAverage[1] # calculateMovingAverage(History(i), DEFAULT_WINDOW)
          /\ Asset(j).movingAverage = <<>>
          /\ Asset(j).volatility = <<>>

\* The asset's statistics are those of its current history.
Reflected(i) ==
    /\ Asset(i).movingAverage = <<calculateMovingAverage(History(i), DEFAULT_WINDOW)>>
    /\ Asset(i).volatility = <<calculateVolatility(History(i))>>

\* With ticking running throughout, every asset eventually has its
\* movingAverage and volatility populated.
EventuallyPopulated ==
    <>(\/ ~isConnected
       \/ \A i \in AssetIdx : Asset(i).movingAverage # <<>> /\ Asset(i).volatility # <<>>)

\* C34 as stated: under fair scheduling every asset is eventually populated
\* while ticking runs, and every history that stops changing is eventually
\* reflected, for good, by statistics computed from exactly that history.
C34_StatsEventually ==
    /\ EventuallyPopulated
    /\ \A i \in AssetIdx : <>[]Reflected(i)

\* C34, amended: under fair scheduling every asset is eventually populated
\* while ticking runs, and every history of at least 2 samples that stops
\* changing is eventually reflected, for good, by statistics computed from
\* exactly that history.
C34_StatsEventuallyFromTwoSamples ==
    /\ EventuallyPopulated
    /\ \A i \in AssetIdx : <>[](Len(History(i)) < 2 \/ Reflected(i))

\* The store is paused after its second tick and an asset's statistics are
\* those of its three-sample history, merged while paused.
C34_Witness ==
    /\ ~isConnected
    /\ lastOp = "workerOnMessage"
    /\ ticks = 2
    /\ \E i \in AssetIdx : Len(History(i)) = 3 /\ Reflected(i)

\* C35: in every reachable state, for every asset, the last entry of
\* priceHistory equals price, and when the history has at least 2 entries
\* its second-to-last entry equals previousPrice.
C35_HistoryEndsWithPrice ==
    \A i \in AssetIdx :
        LET n == Len(History(i))
        IN  /\ n >= 1
            /\ History(i)[n] = Asset(i).price
            /\ n >= 2 => History(i)[n - 1] = Asset(i).previousPrice

\* Ticks went on after the first eviction at the cap, and the last one
\* changed the price.
C35_Witness ==
    /\ lastOp = "updatePrices"
    /\ ticks > PRICE_HISTORY_SIZE
    /\ \A i \in AssetIdx : Len(History(i)) = PRICE_HISTORY_SIZE
    /\ \E i \in AssetIdx : Asset(i).price # Asset(i).previousPrice

\* C36: the running flag is true if and only if a tick source is active (a
\* subscription is held and an interval is live), in every state; and
\* toggleUpdates always flips the running state, so that a second toggle
\* restores it.
C36_FlagIffTickSource ==
    /\ [](/\ isConnected <=> activeIntervals >= 1
          /\ isConnected <=> updateSubscription = "open")
    /\ [][lastOp' = "toggleUpdates"
           => /\ isConnected' = ~isConnected
              /\ (activeIntervals' >= 1) = ~(activeIntervals >= 1)]_vars

\* toggleUpdates has just paused a store that had ticked to the bound: the
\* flag is off and no tick source is left.
C36_Witness ==
    /\ lastOp = "toggleUpdates"
    /\ ticks = MaxTicks
    /\ ~isConnected
    /\ updateSubscription = "undefined"
    /\ activeIntervals = 0
    /\ worker = "undefined"

\* C37: with the configured volatility factors the per-tick changePercent
\* of every asset stays strictly between -5 and 5 in every reachable state,
\* so topGainers and topLosers are empty in every reachable state.
C37_NoGainersNoLosers ==
    /\ \A i \in AssetIdx :
          Asset(i).changePercent > -500 /\ Asset(i).changePercent < 500
    /\ topGainers = <<>>
    /\ topLosers = <<>>

\* A tick has moved a low price by one step of the 4-decimal grid, a fall
\* of more than 1 percent, the largest relative change the rounding allows.
C37_Witness ==
    /\ lastOp = "updatePrices"
    /\ \E i \in AssetIdx :
          /\ Asset(i).changePercent <= -100
          /\ Asset(i).price = Asset(i).previousPrice - 1

\* C38: for a non-empty history and any window size, 0 and negative ones
\* included, the movingAverage of a result is the mean of the last
\* min(windowSize, length) samples of its request's history: of no sample
\* at all (0 / 0) when that number is 0 or less, never of the whole history
\* or of a suffix of another size.
C38_WindowContract ==
    \A h \in handled :
        h.response.type = "stats-result"
        => LET prices == h.request.priceHistory[1]
               n      == Min(h.request.windowSize[1], Len(prices))
               k      == IF n < 0 THEN 0 ELSE n
               lastK  == SubSeq(prices, Len(prices) - k + 1, Len(prices))
           IN  h.response.data[1].movingAverage = Quotient(Sum(lastK), k)

====
